---- MODULE Spec2Model ----
(***************************************************************************)
(* Model of the RAG news bot backend: the session store (cache/redis.js),  *)
(* the chat orchestrator (chat/rag.js), the retry wrapper (llm/gemini.js)  *)
(* and the chunker (ingest/ingest.js).                                     *)
(***************************************************************************)
EXTENDS Integers, Sequences, FiniteSets, TLC

VARIABLES
    hasRedis,     \* process.env.REDIS_URL is set (fixed for the process lifetime)
    clientOpen,   \* client !== null && client.isOpen
    rlist,        \* Redis: key -> list of stored strings (DOMAIN = existing keys)
    rttl,         \* Redis: key -> absolute expiry time (DOMAIN = keys with a TTL)
    mem,          \* const mem = new Map(): key -> array of messages
    timers,       \* const timers = new Map(): key -> due time of the pending timeout
    pending,      \* the runtime's timer table: the timeouts set and not yet cleared or run
    now,          \* wall clock, in TTL ticks
    faults,       \* number of upstream / Redis failures injected so far
    pc,           \* per caller: position in the route handler / handleChat
    call,         \* per caller: the session-store call it is awaiting
    hc,           \* per caller: the locals of its handleChat activation
    rw,           \* per caller: the locals of its retryWithBackoff activation
    ck,           \* the locals of a chunkText activation
    fl,           \* a retrieval filter / citation run on its own
    ig,           \* the locals of the ingestion run (main of ingest.js)
    gh            \* per session: history variables used to state the claims

storeVars == <<hasRedis, clientOpen, rlist, rttl, mem, timers, pending, now>>
vars == <<hasRedis, clientOpen, rlist, rttl, mem, timers, pending, now, faults, pc, call, hc, rw, ck, fl, ig, gh>>

\* the variables of the components away from the session store and the chat
offVars == <<ck, fl, ig>>

----------------------------------------------------------------------------
(* Bounds of the model *)

MaxTime == 3
MaxFaults == 1
MaxLog == 2

(* SESSION_TTL_SECONDS, in clock ticks (redis.js line 6, overridable by env) *)
TTL_SECONDS == 2

Sessions == {"s1", "s2"}
Procs == {1, 2}

(* The messages route handlers and tests append directly *)
Turns ==
    { [message |-> "hi", role |-> "user"],
      [message |-> "hello", role |-> "assistant"] }

----------------------------------------------------------------------------
(* Maps (JavaScript Map / Redis keyspace) as functions with a growing domain *)

MapHas(m, k) == k \in DOMAIN m
MapSet(m, k, v) == [x \in (DOMAIN m) \cup {k} |-> IF x = k THEN v ELSE m[x]]
MapDel(m, k) == [x \in (DOMAIN m) \ {k} |-> m[x]]
EmptyMap == <<>>

OneKEY(sid) == <<"chat", "all">>

(* const KEY = (sid) => `chat:${sid}` *)
KEY(sid) == <<"chat", sid>>

(* JSON.stringify({ ...msg, ts: Date.now() }) *)
JSONstringify(msg, ts) == <<"{", msg.message, msg.role, ts, "}">>

(* JSON texts that are a single literal: null, the number 0, the number 7 *)
JSONLiterals == {"null", "0", "7"}

(* A string JSON.parse accepts: an object as JSONstringify writes it, or a
   literal; anything else (a truncated object, free text) makes it throw *)
WellFormed(s) ==
    \/ (Len(s) = 5 /\ s[1] = "{" /\ s[5] = "}")
    \/ (Len(s) = 1 /\ s[1] \in JSONLiterals)

(* JSON.parse(s) of a well-formed string: the object, or the literal's value *)
JSONparse(s) ==
    IF Len(s) = 5
    THEN [message |-> s[2], role |-> s[3], ts |-> s[4]]
    ELSE [literal |-> s[1]]

(* null *)
Null == [literal |-> "null"]

(* Boolean(v): false for null and 0, true for every object and for 7 *)
Truthy(v) == ~("literal" \in DOMAIN v /\ v.literal \in {"null", "0"})

KeepsRaw(s) == IF WellFormed(s) THEN JSONparse(s) ELSE [literal |-> "raw"]

(* s => { try { return JSON.parse(s) } catch { return null } } *)
TryParse(s) == IF WellFormed(s) THEN JSONparse(s) ELSE Null

(* arr.map(s => { try { JSON.parse(s) } catch { null } }).filter(Boolean) *)
ParseAll(arr) ==
    SelectSeq([i \in 1..Len(arr) |-> TryParse(arr[i])], Truthy)

(* the message and role of each stored turn, without its timestamp *)
Project(h) == [i \in 1..Len(h) |-> [message |-> h[i].message, role |-> h[i].role]]

----------------------------------------------------------------------------
(* Records *)

NoRet == [alias |-> FALSE, val |-> <<>>]
NoTurn == [message |-> "", role |-> ""]

NoCall ==
    [fn |-> "none", at |-> "none", sid |-> "", msg |-> NoTurn,
     value |-> <<>>, ret |-> NoRet, dist |-> FALSE]

(* what one invocation of the wrapped operation settles with *)
Settled(ok, status, hasMsg, message) ==
    [ok |-> ok, status |-> status, hasMsg |-> hasMsg, message |-> message]

NoOutcome == Settled(TRUE, 0, FALSE, <<>>)

NoChat ==
    [sessionId |-> "", message |-> "", history |-> NoRet,
     searchResults |-> <<>>, finalResults |-> <<>>, reply |-> "", citations |-> <<>>,
     embedCalls |-> 0, embedError |-> NoOutcome,
     loaded |-> <<>>, passed |-> <<>>, histText |-> <<>>]

NoRetry ==
    [at |-> "none", variant |-> "", maxRetries |-> 0, baseDelay |-> 0, i |-> 0,
     calls |-> 0, log |-> <<>>, delays |-> <<>>, result |-> NoOutcome]

NoChunk ==
    [at |-> "none", text |-> <<>>, maxChars |-> 0, overlap |-> 0, i |-> 0,
     end |-> 0, chunkCount |-> 0, chunks |-> <<>>]

NoFilter ==
    [at |-> "none", searchResults |-> <<>>, finalResults |-> <<>>, citations |-> <<>>]

NoIngest ==
    [at |-> "none", urlsRaw |-> <<>>, urls |-> <<>>, i |-> 0, processed |-> 0,
     chunks |-> <<>>, groups |-> <<>>, g |-> 0, vectors |-> <<>>,
     attempts |-> <<>>, upserted |-> <<>>,
     store |-> {}, jsonl |-> {}, embedFailed |-> {}]

GhInit ==
    [expect |-> <<>>, tainted |-> FALSE, sinceReset |-> FALSE, dropped |-> 0, base |-> 0]

(* r.lRange(k, 0, -1): the whole list, empty for a missing key *)
RedisLRange(k) == IF MapHas(rlist, k) THEN rlist[k] ELSE <<>>

(* getHistory on Redis, lines 86-93 *)
RedisHistory(k) == ParseAll(RedisLRange(k))

(* mem.get(k) || [] *)
MemGet(k) == IF MapHas(mem, k) THEN mem[k] ELSE <<>>

(* what getHistory(sid) returns when it reads the store now *)
Stored(sid) == IF hasRedis THEN RedisHistory(KEY(sid)) ELSE MemGet(KEY(sid))

----------------------------------------------------------------------------
(* Session store: cache/redis.js *)

(* appendMessage lines 59-60: the key and the serialized value are computed
   before the first await *)
AppendStart(sid, msg) ==
    [NoCall EXCEPT !.fn = "appendMessage", !.at = "getClient", !.sid = sid,
                   !.msg = msg, !.value = JSONstringify(msg, now)]

HistoryStart(sid) ==
    [NoCall EXCEPT !.fn = "getHistory", !.at = "getClient", !.sid = sid]

ResetStart(sid) ==
    [NoCall EXCEPT !.fn = "resetSession", !.at = "getClient", !.sid = sid]

RejectFallsBack(p) ==
    /\ faults < MaxFaults
    /\ faults' = faults + 1
    /\ call' = [call EXCEPT ![p].at = "mem"]

(* an awaited Redis command rejects *)
Reject(p) ==
    /\ faults < MaxFaults
    /\ faults' = faults + 1
    /\ call' = [call EXCEPT ![p].at = "throw"]

(* getClient(): null without REDIS_URL; otherwise the client, connected first
   when it is not open; connect() may reject *)
GetClient(p) ==
    /\ call[p].at = "getClient"
    /\ IF ~hasRedis
       THEN /\ call' = [call EXCEPT ![p].at = "mem"]
            /\ UNCHANGED <<clientOpen, faults>>
       ELSE IF clientOpen
       THEN /\ call' = [call EXCEPT ![p].at = "redis"]
            /\ UNCHANGED <<clientOpen, faults>>
       ELSE \/ /\ clientOpen' = TRUE
               /\ call' = [call EXCEPT ![p].at = "redis"]
               /\ UNCHANGED faults
            \/ /\ Reject(p)
               /\ UNCHANGED clientOpen
    /\ UNCHANGED <<hasRedis, rlist, rttl, mem, timers, pending, now, pc, hc, rw, gh, offVars>>

(* history variables: what a caller may expect of a session's log *)
GhAppended(g, msg, dist) ==
    IF dist
    THEN [g EXCEPT !.tainted = TRUE, !.sinceReset = FALSE]
    ELSE [g EXCEPT !.expect = Append(@, msg)]

GhBroken(g) == [g EXCEPT !.tainted = TRUE, !.sinceReset = FALSE]

GhReset(g, n) ==
    [expect |-> <<>>, tainted |-> FALSE, sinceReset |-> TRUE, dropped |-> n, base |-> 0]

GhExpired(g) == GhInit

(* appends that already pushed to key k and still await their expire *)
Disturb(c, k) ==
    [q \in Procs |->
        IF c[q].fn = "appendMessage" /\ c[q].at = "expire" /\ KEY(c[q].sid) = k
        THEN [c[q] EXCEPT !.dist = TRUE]
        ELSE c[q]]

RedisLPush(list, value) == <<value>> \o list

RedisSet(list, value) == <<value>>

(* r.rPush(k, value): the new list of key k *)
RedisRPush(list, value) == Append(list, value)

(* await r.rPush(k, value), line 65 *)
RPush(p) ==
    LET k == KEY(call[p].sid)
        old == RedisLRange(k)
    IN
    /\ call[p].fn = "appendMessage"
    /\ call[p].at = "redis"
    /\ \/ /\ rlist' = MapSet(rlist, k, RedisRPush(old, call[p].value))
          /\ call' = [call EXCEPT ![p].at = "expire"]
          /\ UNCHANGED faults
       \/ /\ Reject(p)
          /\ UNCHANGED rlist
    /\ UNCHANGED <<hasRedis, clientOpen, rttl, mem, timers, pending, now, pc, hc, rw, gh, offVars>>

(* r.expire(k, TTL_SECONDS): the TTL table afterwards; a missing key gets none *)
RedisExpire(ttl, list, k) ==
    IF MapHas(list, k) THEN MapSet(ttl, k, now + TTL_SECONDS) ELSE ttl

(* await r.expire(k, TTL_SECONDS); return, lines 66-67 *)
Expire(p) ==
    LET sid == call[p].sid IN
    /\ call[p].fn = "appendMessage"
    /\ call[p].at = "expire"
    /\ \/ /\ rttl' = RedisExpire(rttl, rlist, KEY(sid))
          /\ call' = [call EXCEPT ![p].at = "ret"]
          /\ gh' = [gh EXCEPT ![sid] = GhAppended(@, call[p].msg, call[p].dist)]
          /\ UNCHANGED faults
       \/ /\ Reject(p)
          /\ gh' = [gh EXCEPT ![sid] = GhBroken(@)]
          /\ UNCHANGED rttl
    /\ UNCHANGED <<hasRedis, clientOpen, rlist, mem, timers, pending, now, pc, hc, rw, offVars>>

(* await r.lRange(k, 0, -1) and the parse of its result, lines 86-93 *)
LRange(p) ==
    LET k == KEY(call[p].sid) IN
    /\ call[p].fn = "getHistory"
    /\ call[p].at = "redis"
    /\ \/ /\ call' = [call EXCEPT ![p].at = "ret",
                                  ![p].ret = [alias |-> FALSE, val |-> RedisHistory(k)]]
          /\ UNCHANGED faults
       \/ Reject(p)
    /\ UNCHANGED <<storeVars, pc, hc, rw, gh, offVars>>

RedisDelNothing(m, k) == m

(* r.del(k): the keyspace without k *)
RedisDel(m, k) == MapDel(m, k)

(* await r.del(k); return, lines 108-109 *)
Del(p) ==
    LET sid == call[p].sid
        k == KEY(sid)
        n == IF MapHas(rlist, k) THEN Len(rlist[k]) ELSE 0
    IN
    /\ call[p].fn = "resetSession"
    /\ call[p].at = "redis"
    /\ \/ /\ rlist' = RedisDel(rlist, k)
          /\ rttl' = RedisDel(rttl, k)
          /\ call' = [Disturb(call, k) EXCEPT ![p].at = "ret"]
          /\ gh' = [gh EXCEPT ![sid] = GhReset(@, n)]
          /\ UNCHANGED faults
       \/ /\ Reject(p)
          /\ UNCHANGED <<rlist, rttl, gh>>
    /\ UNCHANGED <<hasRedis, clientOpen, mem, timers, pending, now, pc, hc, rw, offVars>>

(* A holder of the array object stored under key k sees what is pushed to it *)
Alias(r, on, arr) == IF r.alias /\ on THEN [r EXCEPT !.val = arr] ELSE r

(* ... and keeps the array, on its own, once the map entry is deleted *)
Unalias(r, on) == IF r.alias /\ on THEN [r EXCEPT !.alias = FALSE] ELSE r

(* arr.push(JSON.parse(value)) *)
MemPush(arr, value) == Append(arr, JSONparse(value))

(* touchMem(k): clear the pending timeout of k, set a new one, lines 46-52 *)
touchMem(tm, k) == MapSet(tm, k, now + TTL_SECONDS)

keepsTimeout(pd, tm, k) == pd

(* if (timers.has(k)) clearTimeout(timers.get(k)), lines 47 and 114-115 *)
clearTimeout(pd, tm, k) ==
    IF MapHas(tm, k) THEN pd \ {[key |-> k, due |-> tm[k]]} ELSE pd

(* setTimeout(() => { ... }, TTL_SECONDS * 1000), line 48 *)
setTimeout(pd, k) == pd \cup {[key |-> k, due |-> now + TTL_SECONDS]}

(* the in-memory branch of appendMessage, lines 71-74, run without an await *)
MemAppend(p) ==
    LET sid == call[p].sid
        k == KEY(sid)
        arr == MemPush(MemGet(k), call[p].value)
    IN
    /\ call[p].fn = "appendMessage"
    /\ call[p].at = "mem"
    /\ mem' = MapSet(mem, k, arr)
    /\ timers' = touchMem(timers, k)
    /\ pending' = setTimeout(clearTimeout(pending, timers, k), k)
    /\ call' = [q \in Procs |->
                  IF q = p THEN [call[p] EXCEPT !.at = "ret"]
                  ELSE [call[q] EXCEPT !.ret = Alias(@, KEY(call[q].sid) = k, arr)]]
    /\ hc' = [q \in Procs |->
                  [hc[q] EXCEPT !.history = Alias(@, KEY(hc[q].sessionId) = k, arr)]]
    /\ gh' = [gh EXCEPT ![sid] = GhAppended(@, call[p].msg, FALSE)]
    /\ UNCHANGED <<hasRedis, clientOpen, rlist, rttl, now, faults, pc, rw, offVars>>

(* return mem.get(k) || [], line 97: the stored array itself, not a copy *)
MemHistory(p) ==
    LET k == KEY(call[p].sid) IN
    /\ call[p].fn = "getHistory"
    /\ call[p].at = "mem"
    /\ call' = [call EXCEPT ![p].at = "ret",
                            ![p].ret = [alias |-> MapHas(mem, k), val |-> MemGet(k)]]
    /\ UNCHANGED <<storeVars, faults, pc, hc, rw, gh, offVars>>

(* mem.delete(k) *)
MemDelete(m, k) == MapDel(m, k)

(* clearTimeout(timers.get(k)); timers.delete(k) *)
TimerDelete(tm, k) == MapDel(tm, k)

(* every holder of the array of key k keeps it while the map forgets it *)
UnaliasCalls(k) ==
    [q \in Procs |-> [call[q] EXCEPT !.ret = Unalias(@, KEY(call[q].sid) = k)]]

UnaliasChats(k) ==
    [q \in Procs |-> [hc[q] EXCEPT !.history = Unalias(@, KEY(hc[q].sessionId) = k)]]

(* the in-memory branch of resetSession, lines 113-117 *)
MemReset(p) ==
    LET sid == call[p].sid
        k == KEY(sid)
        n == IF MapHas(mem, k) THEN Len(mem[k]) ELSE 0
    IN
    /\ call[p].fn = "resetSession"
    /\ call[p].at = "mem"
    /\ mem' = MemDelete(mem, k)
    /\ timers' = TimerDelete(timers, k)
    /\ pending' = clearTimeout(pending, timers, k)
    /\ call' = [UnaliasCalls(k) EXCEPT ![p].at = "ret"]
    /\ hc' = UnaliasChats(k)
    /\ gh' = [gh EXCEPT ![sid] = GhReset(@, n)]
    /\ UNCHANGED <<hasRedis, clientOpen, rlist, rttl, now, faults, pc, rw, offVars>>

(* the timeout callback of touchMem, lines 48-51, once its delay has elapsed *)
TimerFire(sid) ==
    LET k == KEY(sid) IN
    /\ \E t \in pending :
          /\ t.key = k
          /\ t.due <= now
          /\ pending' = pending \ {t}
    /\ mem' = MemDelete(mem, k)
    /\ timers' = TimerDelete(timers, k)
    /\ call' = UnaliasCalls(k)
    /\ hc' = UnaliasChats(k)
    /\ gh' = [gh EXCEPT ![sid] = GhExpired(@)]
    /\ UNCHANGED <<hasRedis, clientOpen, rlist, rttl, now, faults, pc, rw, offVars>>

(* the keys Redis has expired by time t *)
RedisExpired(t) == {k \in DOMAIN rttl : rttl[k] <= t}

(* Time passes. Redis drops the keys whose TTL has run out; a due timeout
   callback runs before the clock moves on. *)
Tick ==
    LET gone == RedisExpired(now + 1) IN
    /\ now < MaxTime
    /\ \A t \in pending : t.due > now
    /\ now' = now + 1
    /\ rlist' = [k \in (DOMAIN rlist) \ gone |-> rlist[k]]
    /\ rttl' = [k \in (DOMAIN rttl) \ gone |-> rttl[k]]
    /\ call' = [q \in Procs |->
                  IF call[q].fn = "appendMessage" /\ call[q].at = "expire"
                     /\ KEY(call[q].sid) \in gone
                  THEN [call[q] EXCEPT !.dist = TRUE]
                  ELSE call[q]]
    /\ gh' = [s \in Sessions |-> IF KEY(s) \in gone THEN GhExpired(gh[s]) ELSE gh[s]]
    /\ UNCHANGED <<hasRedis, clientOpen, mem, timers, pending, faults, pc, hc, rw, offVars>>

----------------------------------------------------------------------------
(* Retry wrapper: retryWithBackoff of llm/gemini.js ("llm") and of the older
   copy of the file, unnamed/part_002 ("legacy") *)

DefaultMaxRetries == 3
DefaultBaseDelay == 1000

(* Bounds: the largest maxRetries argument explored, and a cap on the number
   of invocations followed *)
MaxRetriesArg == 3
MaxCalls == 5

msgOverloaded == <<"o","v","e","r","l","o","a","d","e","d">>
msgRateLimit == <<"R","a","t","e"," ","l","i","m","i","t">>
msgGenerate == <<"g","e","n","e","r","a","t","e">>
msgDenied == <<"d","e","n","i","e","d">>
msgTypeError == <<"T","y","p","e","E","r","r","o","r">>

UpperCase == <<"A","B","C","D","E","F","G","H","I","J","K","L","M",
               "N","O","P","Q","R","S","T","U","V","W","X","Y","Z">>
LowerCase == <<"a","b","c","d","e","f","g","h","i","j","k","l","m",
               "n","o","p","q","r","s","t","u","v","w","x","y","z">>

ToLower(c) ==
    IF \E n \in 1..26 : UpperCase[n] = c
    THEN LowerCase[CHOOSE n \in 1..26 : UpperCase[n] = c]
    ELSE c

ToUpper(c) ==
    IF \E n \in 1..26 : LowerCase[n] = c
    THEN UpperCase[CHOOSE n \in 1..26 : LowerCase[n] = c]
    ELSE c

LowerStr(s) == [n \in 1..Len(s) |-> ToLower(s[n])]
UpperStr(s) == [n \in 1..Len(s) |-> ToUpper(s[n])]

(* s.includes(pat) *)
Includes(s, pat) ==
    \E n \in 1..(Len(s) - Len(pat) + 1) : SubSeq(s, n, n + Len(pat) - 1) = pat

(* /overload|quota|rate|exceed/i.test(msg) *)
RetryPattern(msg) ==
    LET m == LowerStr(msg) IN
    \/ Includes(m, <<"o","v","e","r","l","o","a","d">>)
    \/ Includes(m, <<"q","u","o","t","a">>)
    \/ Includes(m, <<"r","a","t","e">>)
    \/ Includes(m, <<"e","x","c","e","e","d">>)

(* the classifier of llm/gemini.js, lines 21-29; a missing message is "" *)
Transient(e) ==
    \/ e.status \in {503, 502, 500, 504, 429}
    \/ RetryPattern(IF e.hasMsg THEN e.message ELSE <<>>)

(* the classifier of the older copy, line 22: error.message.includes throws
   a TypeError when the error has no message and its status is not 503 *)
LegacyThrows(e) == e.status # 503 /\ ~e.hasMsg
LegacyTransient(e) ==
    e.status = 503 \/ (e.hasMsg /\ Includes(e.message, msgOverloaded))

TypeError == Settled(FALSE, 0, TRUE, msgTypeError)

(* for (let i = 0; i < maxRetries; i++): the loop condition *)
LoopCond(i, maxRetries) == i < maxRetries

NoIncrement(i) == i

(* ... and its increment *)
LoopIncrement(i) == i + 1

GivesUpEarly(i, maxRetries) == i >= maxRetries - 2

(* if (i === maxRetries - 1) throw error *)
LastAttempt(i, maxRetries) == i = maxRetries - 1

FlatDelay(baseDelay, i) == baseDelay

(* baseDelay * Math.pow(2, i) *)
BackoffDelay(baseDelay, i) == baseDelay * 2^i

RetryStart(variant, maxRetries, baseDelay) ==
    [NoRetry EXCEPT !.at = "loop", !.variant = variant,
                    !.maxRetries = maxRetries, !.baseDelay = baseDelay]

(* the head of the for loop; falling out of the loop returns undefined *)
RwLoop(p) ==
    /\ rw[p].at = "loop"
    /\ rw' = [rw EXCEPT ![p].at = IF LoopCond(rw[p].i, rw[p].maxRetries)
                                  THEN "call" ELSE "returned",
                        ![p].result = NoOutcome]
    /\ UNCHANGED <<storeVars, faults, pc, call, hc, gh, offVars>>

(* what the catch block does with error e: rethrow it, throw a TypeError of
   its own, or wait before the next attempt *)
Caught(r, e) ==
    IF LastAttempt(r.i, r.maxRetries)
    THEN [r EXCEPT !.at = "thrown", !.result = e]
    ELSE IF r.variant = "legacy" /\ LegacyThrows(e)
    THEN [r EXCEPT !.at = "thrown", !.result = TypeError]
    ELSE IF (r.variant = "llm" /\ Transient(e))
            \/ (r.variant = "legacy" /\ LegacyTransient(e))
    THEN [r EXCEPT !.at = "wait",
                   !.delays = Append(@, BackoffDelay(r.baseDelay, r.i))]
    ELSE [r EXCEPT !.at = "thrown", !.result = e]

(* return await fn(), with the catch block run on a rejection *)
RwCall(p, outcome) ==
    LET r == [rw[p] EXCEPT !.calls = @ + 1, !.log = Append(@, outcome)] IN
    /\ rw[p].at = "call"
    /\ rw[p].calls < MaxCalls
    /\ rw' = [rw EXCEPT ![p] = IF outcome.ok
                                THEN [r EXCEPT !.at = "returned", !.result = outcome]
                                ELSE Caught(r, outcome)]
    /\ UNCHANGED <<storeVars, faults, pc, call, hc, gh, offVars>>

(* the backoff timeout elapses and the loop goes round *)
RwWait(p) ==
    /\ rw[p].at = "wait"
    /\ rw' = [rw EXCEPT ![p].at = "loop", ![p].i = LoopIncrement(@)]
    /\ UNCHANGED <<storeVars, faults, pc, call, hc, gh, offVars>>

----------------------------------------------------------------------------
(* Retrieval filter and citations: chat/rag.js lines 26-62. Scores are held
   in hundredths, 0.6 being 60. *)

MinScore == 60
FallbackCount == 3

Min(a, b) == IF a < b THEN a ELSE b

ScoreAbove(result) == result.score > MinScore

(* result => result.score >= 0.6 *)
ScoreOk(result) == result.score >= MinScore

(* searchResults.filter(result => result.score >= 0.6), line 28 *)
filteredResults(searchResults) == SelectSeq(searchResults, ScoreOk)

NoFallback(searchResults) == filteredResults(searchResults)

(* filteredResults.length > 0 ? filteredResults : searchResults.slice(0, 3) *)
finalResults(searchResults) ==
    IF Len(filteredResults(searchResults)) > 0
    THEN filteredResults(searchResults)
    ELSE SubSeq(searchResults, 1, Min(FallbackCount, Len(searchResults)))

(* finalResults.map(result => ({ title, text, url })), lines 35-39 *)
contextDocs(results) ==
    [n \in 1..Len(results) |->
        [title |-> results[n].title, text |-> results[n].text, url |-> results[n].url]]

Citation(result) == [title |-> result.title, url |-> result.url, score |-> result.score]

KeepFirst(cmap, result) ==
    IF \E n \in 1..Len(cmap) : cmap[n].url = result.url
    THEN cmap
    ELSE Append(cmap, Citation(result))

(* one round of the forEach of lines 52-61 on the insertion-ordered Map:
   a new key is added at the end, a known key keeps its place and takes the
   new value when the score is strictly higher *)
CiteStep(cmap, result) ==
    IF \E n \in 1..Len(cmap) : cmap[n].url = result.url
    THEN [n \in 1..Len(cmap) |->
            IF cmap[n].url = result.url /\ result.score > cmap[n].score
            THEN Citation(result)
            ELSE cmap[n]]
    ELSE Append(cmap, Citation(result))

RECURSIVE CiteFold(_, _)
CiteFold(results, n) ==
    IF n = 0 THEN <<>> ELSE CiteStep(CiteFold(results, n - 1), results[n])

(* Array.from(citationsMap.values()) after the forEach *)
citations(results) == CiteFold(results, Len(results))

(* the filter and the citation builder run on a candidate list of their own *)
FlFilter ==
    /\ fl.at = "search"
    /\ fl' = [fl EXCEPT !.at = "filtered",
                        !.finalResults = finalResults(fl.searchResults)]
    /\ UNCHANGED <<storeVars, faults, pc, call, hc, rw, gh, ck, ig>>

FlCite ==
    /\ fl.at = "filtered"
    /\ fl' = [fl EXCEPT !.at = "cited", !.citations = citations(fl.finalResults)]
    /\ UNCHANGED <<storeVars, faults, pc, call, hc, rw, gh, ck, ig>>

----------------------------------------------------------------------------
(* Chunker: chunkText of ingest/ingest.js, lines 31-66. A text is the
   sequence of its characters; i and end are JavaScript's 0-based offsets. *)

DefaultMaxChars == 1500
DefaultOverlap == 150
maxChunks == 30
MinChunkLength == 100

Max(a, b) == IF a > b THEN a ELSE b

Whitespace == {" ", "\n", "\t"}

(* text.slice(from, to) for 0 <= from, to <= text.length *)
Slice(text, from, to) == SubSeq(text, from + 1, to)

(* s.trim() *)
Trim(s) ==
    LET ink == {n \in 1..Len(s) : s[n] \notin Whitespace} IN
    IF ink = {} THEN <<>>
    ELSE SubSeq(s, CHOOSE n \in ink : \A m \in ink : n <= m,
                   CHOOSE n \in ink : \A m \in ink : n >= m)

(* text.lastIndexOf(ch, from): the last offset <= from that holds ch, or -1 *)
LastIndexOf(text, ch, from) ==
    LET at == {n \in 0..Min(from, Len(text) - 1) : text[n + 1] = ch} IN
    IF at = {} THEN -1 ELSE CHOOSE n \in at : \A m \in at : n >= m

(* lines 38-51: the end of the window that starts at i *)
WindowEnd(text, i, maxChars) ==
    LET end == Min(Len(text), i + maxChars)
        lastSentenceEnd ==
            Max(LastIndexOf(text, ".", end),
                Max(LastIndexOf(text, "!", end), LastIndexOf(text, "?", end)))
    IN  IF end < Len(text) /\ 10 * lastSentenceEnd > 10 * i + 7 * maxChars
        THEN lastSentenceEnd + 1
        ELSE end

(* if (chunk.length > 100) chunks.push(chunk), lines 54-56 *)
KeepChunk(chunks, chunk) ==
    IF Len(chunk) > MinChunkLength THEN Append(chunks, chunk) ELSE chunks

(* i = end - overlap; if (i < 0) i = 0, lines 59-60 *)
NextStart(end, overlap) == IF end - overlap < 0 THEN 0 ELSE end - overlap

ChunkLoopOneMore(c) == c.i < Len(c.text) /\ c.chunkCount <= maxChunks

(* while (i < text.length && chunkCount < maxChunks), line 37 *)
ChunkLoopCond(c) == c.i < Len(c.text) /\ c.chunkCount < maxChunks

ChunkStart(text, maxChars, overlap) ==
    [NoChunk EXCEPT !.at = "loop", !.text = text, !.maxChars = maxChars,
                    !.overlap = overlap]

(* one round of the while loop, lines 38-61 *)
CkRound ==
    LET end == WindowEnd(ck.text, ck.i, ck.maxChars)
        chunk == Trim(Slice(ck.text, ck.i, end))
    IN
    /\ ck.at = "loop"
    /\ ChunkLoopCond(ck)
    /\ ck' = [ck EXCEPT !.chunks = KeepChunk(@, chunk),
                        !.end = end,
                        !.i = NextStart(end, ck.overlap),
                        !.chunkCount = @ + 1]
    /\ UNCHANGED <<storeVars, faults, pc, call, hc, rw, gh, fl, ig>>

(* the loop ends: return chunks.filter(Boolean), line 65 *)
CkReturn ==
    /\ ck.at = "loop"
    /\ ~ChunkLoopCond(ck)
    /\ ck' = [ck EXCEPT !.at = "done",
                        !.chunks = SelectSeq(@, LAMBDA c : Len(c) > 0)]
    /\ UNCHANGED <<storeVars, faults, pc, call, hc, rw, gh, fl, ig>>

----------------------------------------------------------------------------
(* Callers of the session store's exported functions *)

StoredLen(sid) ==
    IF hasRedis
    THEN IF MapHas(rlist, KEY(sid)) THEN Len(rlist[KEY(sid)]) ELSE 0
    ELSE IF MapHas(mem, KEY(sid)) THEN Len(mem[KEY(sid)]) ELSE 0

CallAppend(p, sid, msg) ==
    /\ pc[p] = "idle"
    /\ StoredLen(sid) < MaxLog
    /\ pc' = [pc EXCEPT ![p] = "calling"]
    /\ call' = [call EXCEPT ![p] = AppendStart(sid, msg)]
    /\ UNCHANGED <<storeVars, faults, hc, rw, gh, offVars>>

(* GET /api/session/:id/history *)
CallHistory(p, sid) ==
    /\ pc[p] = "idle"
    /\ pc' = [pc EXCEPT ![p] = "calling"]
    /\ call' = [call EXCEPT ![p] = HistoryStart(sid)]
    /\ UNCHANGED <<storeVars, faults, hc, rw, gh, offVars>>

(* DELETE /api/session/:id *)
CallReset(p, sid) ==
    /\ pc[p] = "idle"
    /\ pc' = [pc EXCEPT ![p] = "calling"]
    /\ call' = [call EXCEPT ![p] = ResetStart(sid)]
    /\ UNCHANGED <<storeVars, faults, hc, rw, gh, offVars>>

(* the awaited call settles and the caller takes its result *)
Return(p) ==
    /\ pc[p] = "calling"
    /\ call[p].at \in {"ret", "throw"}
    /\ pc' = [pc EXCEPT ![p] = "idle"]
    /\ call' = [call EXCEPT ![p] = NoCall]
    /\ UNCHANGED <<storeVars, faults, hc, rw, gh, offVars>>

(* the steps of appendMessage and getHistory, whoever awaits them *)
StoreStep(p) ==
    \/ GetClient(p)
    \/ RPush(p)
    \/ Expire(p)
    \/ LRange(p)
    \/ MemAppend(p)
    \/ MemHistory(p)

(* the steps of resetSession *)
ResetStep(p) ==
    \/ Del(p)
    \/ MemReset(p)

InitCommon ==
    /\ hasRedis \in BOOLEAN
    /\ clientOpen = FALSE
    /\ rlist = EmptyMap
    /\ rttl = EmptyMap
    /\ mem = EmptyMap
    /\ timers = EmptyMap
    /\ pending = {}
    /\ now = 0
    /\ faults = 0
    /\ pc = [p \in Procs |-> "idle"]
    /\ call = [p \in Procs |-> NoCall]
    /\ hc = [p \in Procs |-> NoChat]
    /\ gh = [s \in Sessions |-> GhInit]

----------------------------------------------------------------------------
(* Chat orchestrator: handleChat of chat/rag.js, called by POST /api/chat *)

(* the message each caller sends and the text the model answers it with *)
UserMsg == [p \in Procs |-> IF p = 1 THEN "q1" ELSE "q2"]
ReplyText == [p \in Procs |-> IF p = 1 THEN "a1" ELSE "a2"]

(* The prompt's chat history: answerWithContext of llm/gemini.js, lines 56-60 *)

HistoryWindow == 6

(* history.slice(-6): the last six elements, all of a shorter array *)
SliceLast(arr, n) == SubSeq(arr, Max(1, Len(arr) - n + 1), Len(arr))

(* m[f] as a template literal renders it: "undefined" for a missing property *)
Prop(m, f) == IF f \in DOMAIN m THEN m[f] ELSE "undefined"

(* role.toUpperCase() on the roles turns are stored with *)
toUpperCase(role) ==
    CASE role = "user" -> "USER"
      [] role = "assistant" -> "ASSISTANT"
      [] OTHER -> role

(* history.slice(-6).map((m) => `${m.role.toUpperCase()}: ${m.content}`):
   one line per turn, held as the role and the text after the colon *)
histText(history) ==
    LET last == SliceLast(history, HistoryWindow) IN
    [n \in 1..Len(last) |->
        [role |-> toUpperCase(Prop(last[n], "role")),
         text |-> Prop(last[n], "content")]]

(* an awaited upstream call (embedding, vector search) rejects; the catch
   of lines 69-72 turns it into the request's failure *)
HcUpstreamFails(p) ==
    /\ faults < MaxFaults
    /\ faults' = faults + 1
    /\ pc' = [pc EXCEPT ![p] = "hc_failed"]
    /\ UNCHANGED <<hc, rw>>

(* POST /api/chat calls handleChat, which calls getHistory(sessionId), line 17 *)
StartChat(p, sid) ==
    /\ pc[p] = "idle"
    /\ pc' = [pc EXCEPT ![p] = "hc_getHistory"]
    /\ hc' = [hc EXCEPT ![p] = [NoChat EXCEPT !.sessionId = sid, !.message = UserMsg[p]]]
    /\ call' = [call EXCEPT ![p] = HistoryStart(sid)]
    /\ UNCHANGED <<storeVars, faults, rw, gh, offVars>>

(* const history = await getHistory(sessionId); getEmbedding is called *)
HcHistory(p) ==
    /\ pc[p] = "hc_getHistory"
    /\ call[p].at = "ret"
    /\ hc' = [hc EXCEPT ![p].history = call[p].ret, ![p].loaded = call[p].ret.val]
    /\ call' = [call EXCEPT ![p] = NoCall]
    /\ pc' = [pc EXCEPT ![p] = "hc_embed"]
    /\ UNCHANGED <<storeVars, faults, rw, gh, offVars>>

HcCatchSwallows(p) ==
    /\ pc[p] \in {"hc_getHistory", "hc_appendUser", "hc_appendAsst"}
    /\ call[p].at = "throw"
    /\ call' = [call EXCEPT ![p] = NoCall]
    /\ pc' = [pc EXCEPT ![p] = "hc_done"]
    /\ UNCHANGED <<storeVars, faults, hc, rw, gh, offVars>>

(* an awaited session-store call rejects: catch, lines 69-72 *)
HcCatch(p) ==
    /\ pc[p] \in {"hc_getHistory", "hc_appendUser", "hc_appendAsst"}
    /\ call[p].at = "throw"
    /\ call' = [call EXCEPT ![p] = NoCall]
    /\ pc' = [pc EXCEPT ![p] = "hc_failed"]
    /\ UNCHANGED <<storeVars, faults, hc, rw, gh, offVars>>

(* const queryVector = await getEmbedding(message), line 20: getEmbedding
   posts to the embedding service once (jina.js 13-20) and throws what the
   post rejects with; on success search is called *)
HcEmbed(p, outcome) ==
    /\ pc[p] = "hc_embed"
    /\ IF outcome.ok
       THEN /\ pc' = [pc EXCEPT ![p] = "hc_search"]
            /\ hc' = [hc EXCEPT ![p].embedCalls = @ + 1]
            /\ UNCHANGED faults
       ELSE /\ faults < MaxFaults
            /\ faults' = faults + 1
            /\ pc' = [pc EXCEPT ![p] = "hc_failed"]
            /\ hc' = [hc EXCEPT ![p].embedCalls = @ + 1, ![p].embedError = outcome]
    /\ UNCHANGED <<storeVars, call, rw, gh, offVars>>

HcSearchNeedsResults(p, results) ==
    /\ pc[p] = "hc_search"
    /\ \/ /\ results # <<>>
          /\ hc' = [hc EXCEPT ![p].searchResults = results,
                                ![p].finalResults = finalResults(results),
                                ![p].passed = hc[p].history.val,
                                ![p].histText = histText(hc[p].history.val)]
          /\ rw' = [rw EXCEPT ![p] = RetryStart("llm", DefaultMaxRetries, DefaultBaseDelay)]
          /\ pc' = [pc EXCEPT ![p] = "hc_generate"]
          /\ UNCHANGED faults
       \/ /\ results = <<>>
          /\ pc' = [pc EXCEPT ![p] = "hc_failed"]
          /\ UNCHANGED <<hc, rw, faults>>
       \/ HcUpstreamFails(p)
    /\ UNCHANGED <<storeVars, call, gh, offVars>>

(* const searchResults = await search(...), line 24, then lines 28-46 up to
   the first invocation of the model inside retryWithBackoff *)
HcSearch(p, results) ==
    /\ pc[p] = "hc_search"
    /\ \/ /\ hc' = [hc EXCEPT ![p].searchResults = results,
                                ![p].finalResults = finalResults(results),
                                ![p].passed = hc[p].history.val,
                                ![p].histText = histText(hc[p].history.val)]
          /\ rw' = [rw EXCEPT ![p] = RetryStart("llm", DefaultMaxRetries, DefaultBaseDelay)]
          /\ pc' = [pc EXCEPT ![p] = "hc_generate"]
          /\ UNCHANGED faults
       \/ HcUpstreamFails(p)
    /\ UNCHANGED <<storeVars, call, gh, offVars>>

HcGeneratedNoAwait(p) ==
    /\ pc[p] = "hc_generate"
    /\ rw[p].at = "returned"
    /\ hc' = [hc EXCEPT ![p].reply = ReplyText[p],
                        ![p].citations = citations(hc[p].finalResults)]
    /\ rw' = [rw EXCEPT ![p] = NoRetry]
    /\ call' = [call EXCEPT ![p] =
                  AppendStart(hc[p].sessionId, [message |-> hc[p].message, role |-> "user"])]
    /\ pc' = [pc EXCEPT ![p] = "hc_done"]
    /\ UNCHANGED <<storeVars, faults, gh, offVars>>

(* answerWithContext returns: reply and citations are built, lines 47-62,
   and appendMessage(sessionId, { message, role: 'user' }) is called, line 65 *)
HcGenerated(p) ==
    /\ pc[p] = "hc_generate"
    /\ rw[p].at = "returned"
    /\ hc' = [hc EXCEPT ![p].reply = ReplyText[p],
                        ![p].citations = citations(hc[p].finalResults)]
    /\ rw' = [rw EXCEPT ![p] = NoRetry]
    /\ call' = [call EXCEPT ![p] =
                  AppendStart(hc[p].sessionId, [message |-> hc[p].message, role |-> "user"])]
    /\ pc' = [pc EXCEPT ![p] = "hc_appendUser"]
    /\ UNCHANGED <<storeVars, faults, gh, offVars>>

HcGenFailedSaves(p) ==
    /\ pc[p] = "hc_generate"
    /\ rw[p].at = "thrown"
    /\ rw' = [rw EXCEPT ![p] = NoRetry]
    /\ call' = [call EXCEPT ![p] =
                  AppendStart(hc[p].sessionId, [message |-> hc[p].message, role |-> "user"])]
    /\ pc' = [pc EXCEPT ![p] = "hc_appendUser"]
    /\ UNCHANGED <<storeVars, faults, hc, gh, offVars>>

(* answerWithContext throws what retryWithBackoff threw: catch, lines 69-72 *)
HcGenFailed(p) ==
    /\ pc[p] = "hc_generate"
    /\ rw[p].at = "thrown"
    /\ rw' = [rw EXCEPT ![p] = NoRetry]
    /\ pc' = [pc EXCEPT ![p] = "hc_failed"]
    /\ UNCHANGED <<storeVars, faults, call, hc, gh, offVars>>

(* the first append resolves and
   appendMessage(sessionId, { message: reply, role: 'assistant' }) is called, line 66 *)
HcAppendedUser(p) ==
    /\ pc[p] = "hc_appendUser"
    /\ call[p].at = "ret"
    /\ call' = [call EXCEPT ![p] =
                  AppendStart(hc[p].sessionId, [message |-> hc[p].reply, role |-> "assistant"])]
    /\ pc' = [pc EXCEPT ![p] = "hc_appendAsst"]
    /\ UNCHANGED <<storeVars, faults, hc, rw, gh, offVars>>

(* the second append resolves: return { reply, citations }, line 68 *)
HcRespond(p) ==
    /\ pc[p] = "hc_appendAsst"
    /\ call[p].at = "ret"
    /\ call' = [call EXCEPT ![p] = NoCall]
    /\ pc' = [pc EXCEPT ![p] = "hc_done"]
    /\ UNCHANGED <<storeVars, faults, hc, rw, gh, offVars>>

----------------------------------------------------------------------------
(* Specification of the session store under one sequential caller *)

StoreCaller == CHOOSE p \in Procs : \A q \in Procs : p <= q
StoreSessions == {"s1"}

Init ==
    /\ InitCommon
    /\ rw = [p \in Procs |-> NoRetry]
    /\ ck = NoChunk
    /\ fl = NoFilter
    /\ ig = NoIngest

Next ==
    \/ \E sid \in StoreSessions, msg \in Turns : CallAppend(StoreCaller, sid, msg)
    \/ \E sid \in StoreSessions : CallHistory(StoreCaller, sid)
    \/ \E sid \in StoreSessions : CallReset(StoreCaller, sid)
    \/ Return(StoreCaller)
    \/ StoreStep(StoreCaller)
    \/ ResetStep(StoreCaller)
    \/ \E sid \in Sessions : TimerFire(sid)
    \/ Tick

Spec == Init /\ [][Next]_vars

----------------------------------------------------------------------------
(* Claims on the session store *)

(* C2: getHistory called right after N successful appendMessage calls on a
   session, with no reset, no expiry and no failed append in between, returns
   exactly those N turns (message and role) in the order they were appended. *)
C2_HistoryAfterAppends ==
    [][\A p \in Procs :
          (/\ call[p].fn = "getHistory"
           /\ call[p].at \in {"redis", "mem"}
           /\ call'[p].at = "ret"
           /\ ~gh[call[p].sid].tainted)
          => Project(call'[p].ret.val) = gh[call[p].sid].expect]_vars

C2_Witness ==
    \E p \in Procs :
        /\ call[p].fn = "getHistory"
        /\ call[p].at = "ret"
        /\ ~gh[call[p].sid].tainted
        /\ Len(call[p].ret.val) = 2
        /\ call[p].ret.val[1].message # call[p].ret.val[2].message
        /\ Project(call[p].ret.val) = gh[call[p].sid].expect

(* an append to the session has pushed its entry and is not yet complete *)
AppendInFlight(sid) ==
    \E p \in Procs :
        call[p].fn = "appendMessage" /\ call[p].sid = sid /\ call[p].at = "expire"

(* C9: once resetSession(s) has completed, the history of s is empty whatever
   was stored before, and the appends made after the reset are all it holds:
   after one append of t it holds t alone. *)
C9_ResetStartsFresh ==
    \A sid \in Sessions :
        (gh[sid].sinceReset /\ ~AppendInFlight(sid))
        => /\ Project(Stored(sid)) = gh[sid].expect
           /\ Len(Stored(sid)) = Len(gh[sid].expect)

C9_Witness ==
    \E sid \in Sessions :
        /\ gh[sid].sinceReset
        /\ gh[sid].dropped >= 1
        /\ Len(gh[sid].expect) = 1
        /\ ~AppendInFlight(sid)
        /\ Len(Stored(sid)) = 1

StoreOps == {"appendMessage", "getHistory", "resetSession"}

(* C12: with REDIS_URL set, when connect or a Redis command rejects during
   appendMessage, getHistory or resetSession, that call rejects, and it stays
   rejected until its caller takes the error; no call ever enters the
   in-memory branch, and the in-process map and its timers stay empty. *)
C12_NoFallback ==
    [][hasRedis =>
          /\ mem' = EmptyMap
          /\ timers' = EmptyMap
          /\ \A p \in Procs : call'[p].at # "mem"
          /\ faults' > faults =>
                \E p \in Procs :
                    /\ call[p].fn \in StoreOps
                    /\ call[p].at \in {"getClient", "redis", "expire"}
                    /\ call'[p] = [call[p] EXCEPT !.at = "throw"]
          /\ \A p \in Procs :
                call[p].at = "throw" =>
                    \/ call'[p] = call[p]
                    \/ (call'[p] = NoCall /\ pc'[p] = "idle")]_vars

C12_Witness ==
    \E p \in Procs :
        /\ hasRedis
        /\ clientOpen
        /\ call[p].fn = "appendMessage"
        /\ call[p].at = "throw"
        /\ faults = 1
        /\ mem = EmptyMap

(* the time at which the session's stored log is due to be evicted, per
   backend: the Redis TTL of the key, or the due time of the map's timer *)
HasDeadline(sid) ==
    IF hasRedis THEN MapHas(rttl, KEY(sid)) ELSE MapHas(timers, KEY(sid))

Deadline(sid) == IF hasRedis THEN rttl[KEY(sid)] ELSE timers[KEY(sid)]

IsStored(sid) == IF hasRedis THEN MapHas(rlist, KEY(sid)) ELSE MapHas(mem, KEY(sid))

(* C14: when an appendMessage call completes successfully the session is
   stored, holds the appended turn last or before later appends, and its
   eviction is due a full TTL from now; and a stored session disappears only
   by a reset or at its deadline. *)
C14_AppendRestartsTTL ==
    [][/\ \A p \in Procs :
             (call[p].fn = "appendMessage" /\ call[p].at # "ret" /\ call'[p].at = "ret")
             => /\ IsStored(call[p].sid)'
                /\ HasDeadline(call[p].sid)'
                /\ Deadline(call[p].sid)' = now' + TTL_SECONDS
       /\ \A sid \in Sessions :
             (IsStored(sid) /\ ~IsStored(sid)')
             => \/ \E p \in Procs : call[p].fn = "resetSession" /\ call[p].sid = sid
                \/ (HasDeadline(sid) /\ Deadline(sid) <= now')]_vars

(* an appendMessage call on the session has started and not yet settled *)
AppendPending(sid) ==
    \E p \in Procs :
        /\ call[p].fn = "appendMessage"
        /\ call[p].sid = sid
        /\ call[p].at \in {"getClient", "redis", "expire", "mem"}

(* the timeouts of a session's key pending in the runtime *)
PendingOf(sid) == {t \in pending : t.key = KEY(sid)}

(* C28: in a deployment without Redis, after any appends, resets and timer
   expiries, the runtime holds at most one pending timeout per session, and
   it holds one exactly when the session has a stored log: the timeout the
   timers map names. No reset or expiry leaves a log without a timeout or a
   timeout without a log. *)
C28_OneTimerPerLog ==
    ~hasRedis
    => /\ \A t \in pending : \E sid \in Sessions : t.key = KEY(sid)
       /\ \A sid \in Sessions :
             /\ Cardinality(PendingOf(sid)) <= 1
             /\ MapHas(mem, KEY(sid)) <=> PendingOf(sid) # {}
             /\ MapHas(mem, KEY(sid)) <=> MapHas(timers, KEY(sid))
             /\ MapHas(timers, KEY(sid))
                   => PendingOf(sid) = {[key |-> KEY(sid), due |-> timers[KEY(sid)]]}

C28_Witness ==
    /\ ~hasRedis
    /\ gh["s1"].sinceReset
    /\ gh["s1"].dropped = 1
    /\ MapHas(mem, KEY("s1"))
    /\ Len(mem[KEY("s1")]) = 1
    /\ PendingOf("s1") = {[key |-> KEY("s1"), due |-> now + TTL_SECONDS]}
    /\ now > 0

(* C15: a session that is stored, with no append to it in progress, is due
   for eviction at most one TTL from now, and Redis holds no session past
   its deadline: without a further append the session is gone once the TTL
   window has passed. A session that is not stored reads as the empty
   sequence, like one that never existed. *)
C15_IdleSessionExpires ==
    \A sid \in Sessions :
        /\ (IsStored(sid) /\ ~AppendPending(sid))
           => /\ HasDeadline(sid)
              /\ Deadline(sid) <= now + TTL_SECONDS
              /\ hasRedis => now < Deadline(sid)
        /\ ~IsStored(sid) => Stored(sid) = <<>>

----------------------------------------------------------------------------
(* Specification of the two backends side by side: two deployments of the
   store, the first with REDIS_URL set, the second without, receive the same
   calls at the same times. A call takes effect on both at once: the rPush /
   lRange / del of the first and the synchronous in-memory branch of the
   second; the expire of the first's appendMessage follows as a command of
   its own. hasRedis is that of the first deployment. No command fails. *)

EqRedis == CHOOSE p \in Procs : \A q \in Procs : p <= q
EqMem == CHOOSE p \in Procs : \A q \in Procs : p >= q

(* both callers are between calls, and no timeout callback is due: a due
   callback runs before the next request is read *)
EqReady ==
    /\ \A p \in Procs : pc[p] = "idle"
    /\ \A t \in pending : t.due > now

EqAppend(sid, msg) ==
    LET k == KEY(sid)
        value == JSONstringify(msg, now)
    IN
    /\ EqReady
    /\ Len(RedisLRange(k)) < MaxLog
    /\ Len(MemGet(k)) < MaxLog
    /\ rlist' = MapSet(rlist, k, RedisRPush(RedisLRange(k), value))
    /\ mem' = MapSet(mem, k, MemPush(MemGet(k), value))
    /\ timers' = touchMem(timers, k)
    /\ pending' = setTimeout(clearTimeout(pending, timers, k), k)
    /\ call' = [p \in Procs |->
                  [AppendStart(sid, msg) EXCEPT
                      !.at = IF p = EqRedis THEN "expire" ELSE "ret"]]
    /\ pc' = [p \in Procs |-> "calling"]
    /\ UNCHANGED <<hasRedis, clientOpen, rttl, now, faults, hc, rw, gh, offVars>>

EqHistory(sid) ==
    LET k == KEY(sid) IN
    /\ EqReady
    /\ call' = [p \in Procs |->
                  [HistoryStart(sid) EXCEPT
                      !.at = "ret",
                      !.ret = IF p = EqRedis
                              THEN [alias |-> FALSE, val |-> RedisHistory(k)]
                              ELSE [alias |-> MapHas(mem, k), val |-> MemGet(k)]]]
    /\ pc' = [p \in Procs |-> "calling"]
    /\ UNCHANGED <<storeVars, faults, hc, rw, gh, offVars>>

EqReset(sid) ==
    LET k == KEY(sid) IN
    /\ EqReady
    /\ rlist' = RedisDel(rlist, k)
    /\ rttl' = RedisDel(rttl, k)
    /\ mem' = MemDelete(mem, k)
    /\ timers' = TimerDelete(timers, k)
    /\ pending' = clearTimeout(pending, timers, k)
    /\ call' = [p \in Procs |-> [ResetStart(sid) EXCEPT !.at = "ret"]]
    /\ pc' = [p \in Procs |-> "calling"]
    /\ gh' = [gh EXCEPT ![sid] = GhReset(@, Len(RedisLRange(k)))]
    /\ UNCHANGED <<hasRedis, clientOpen, now, faults, hc, rw, offVars>>

(* both calls have settled and their callers take the results *)
EqReturn ==
    /\ \A p \in Procs : pc[p] = "calling" /\ call[p].at = "ret"
    /\ pc' = [p \in Procs |-> "idle"]
    /\ call' = [p \in Procs |-> NoCall]
    /\ UNCHANGED <<storeVars, faults, hc, rw, gh, offVars>>

InitEquiv ==
    /\ hasRedis = TRUE
    /\ clientOpen = TRUE
    /\ rlist = EmptyMap
    /\ rttl = EmptyMap
    /\ mem = EmptyMap
    /\ timers = EmptyMap
    /\ pending = {}
    /\ now = 0
    /\ faults = MaxFaults
    /\ pc = [p \in Procs |-> "idle"]
    /\ call = [p \in Procs |-> NoCall]
    /\ hc = [p \in Procs |-> NoChat]
    /\ gh = [s \in Sessions |-> GhInit]
    /\ rw = [p \in Procs |-> NoRetry]
    /\ ck = NoChunk
    /\ fl = NoFilter
    /\ ig = NoIngest

NextEquiv ==
    \/ \E sid \in StoreSessions, msg \in Turns : EqAppend(sid, msg)
    \/ \E sid \in StoreSessions : EqHistory(sid)
    \/ \E sid \in StoreSessions : EqReset(sid)
    \/ Expire(EqRedis)
    \/ EqReturn
    \/ \E sid \in Sessions : TimerFire(sid)
    \/ Tick

SpecEquiv == InitEquiv /\ [][NextEquiv]_vars

(* C13: the same calls at the same times on both backends: every getHistory
   returns the same sequence of turns from the Redis backend as from the
   in-process one. *)
C13_BackendsEquivalent ==
    (\A p \in Procs : call[p].fn = "getHistory" /\ call[p].at = "ret")
    => call[EqRedis].ret.val = call[EqMem].ret.val

----------------------------------------------------------------------------
(* Specification of getHistory on a Redis list that other clients of the
   server write to as well: they push turns as appendMessage stores them,
   JSON literals, a truncated object and free text *)

RawEntries ==
    {JSONstringify(m, 0) : m \in Turns}
        \cup {<<l>> : l \in JSONLiterals}
        \cup {<<"{", "hi">>, <<"oops">>}

InitRaw ==
    /\ InitCommon
    /\ hasRedis = TRUE
    /\ rw = [p \in Procs |-> NoRetry]
    /\ ck = NoChunk
    /\ fl = NoFilter
    /\ ig = NoIngest

(* another client of the Redis server pushes an entry of its own *)
ForeignPush(sid, s) ==
    /\ hasRedis
    /\ Len(RedisLRange(KEY(sid))) < MaxLog
    /\ rlist' = MapSet(rlist, KEY(sid), RedisRPush(RedisLRange(KEY(sid)), s))
    /\ UNCHANGED <<hasRedis, clientOpen, rttl, mem, timers, pending, now, faults, pc, call, hc,
                   rw, gh, offVars>>

NextRaw ==
    \/ \E sid \in StoreSessions, s \in RawEntries : ForeignPush(sid, s)
    \/ \E sid \in StoreSessions, msg \in Turns : CallAppend(StoreCaller, sid, msg)
    \/ \E sid \in StoreSessions : CallHistory(StoreCaller, sid)
    \/ GetClient(StoreCaller)
    \/ RPush(StoreCaller)
    \/ Expire(StoreCaller)
    \/ LRange(StoreCaller)
    \/ Return(StoreCaller)

SpecRaw == InitRaw /\ [][NextRaw]_vars

(* the positions of the entries JSON.parse accepts *)
Parsable(s) == {n \in 1..Len(s) : WellFormed(s[n])}

(* ... and of those among them whose value is not null, false, 0 or "" *)
ParsableTruthy(s) == {n \in Parsable(s) : s[n] \notin {<<"null">>, <<"0">>}}

(* r lists the values of the entries of s at the positions P, in their order *)
IsParsedSelection(r, s, P) ==
    /\ Len(r) = Cardinality(P)
    /\ \A n \in P : r[Cardinality({m \in P : m <= n})] = JSONparse(s[n])

(* C16 as stated: getHistory on Redis rejects only when a Redis command does,
   and returns exactly the entries JSON.parse accepts, in stored order. *)
C16_ReturnsWellFormed ==
    [][\A p \in Procs :
          (call[p].fn = "getHistory" /\ call[p].at = "redis")
          => /\ call'[p].at = "throw" => faults' > faults
             /\ call'[p].at = "ret" =>
                   IsParsedSelection(call'[p].ret.val, RedisLRange(KEY(call[p].sid)),
                                     Parsable(RedisLRange(KEY(call[p].sid))))]_vars

(* C16, amended: getHistory on Redis rejects only when a Redis command does,
   and returns exactly the entries that JSON.parse accepts and whose value is
   truthy (every object is), in stored order; it omits the entries that do
   not parse and those that parse to null, false, 0 or "". *)
C16_SkipsUnparsable ==
    [][\A p \in Procs :
          (call[p].fn = "getHistory" /\ call[p].at = "redis")
          => /\ call'[p].at = "throw" => faults' > faults
             /\ call'[p].at = "ret" =>
                   IsParsedSelection(call'[p].ret.val, RedisLRange(KEY(call[p].sid)),
                                     ParsableTruthy(RedisLRange(KEY(call[p].sid))))]_vars

C16_Witness ==
    \E p \in Procs :
        LET s == RedisLRange(KEY(call[p].sid)) IN
        /\ call[p].fn = "getHistory"
        /\ call[p].at = "ret"
        /\ Len(s) = 2
        /\ ~WellFormed(s[1])
        /\ s[2] = JSONstringify([message |-> "hello", role |-> "assistant"], 0)
        /\ call[p].ret.val = <<[message |-> "hello", role |-> "assistant", ts |-> 0]>>

----------------------------------------------------------------------------
(* Specification of one retryWithBackoff activation on its own *)

RetryCaller == CHOOSE p \in Procs : \A q \in Procs : p <= q

ErrStatuses == {0, 400, 429, 503}
ErrMessages == {msgOverloaded, msgRateLimit, msgGenerate, msgDenied}

Errors ==
    {Settled(FALSE, s, TRUE, m) : s \in ErrStatuses, m \in ErrMessages}
        \cup {Settled(FALSE, s, FALSE, <<>>) : s \in ErrStatuses}

Success == Settled(TRUE, 200, FALSE, <<>>)

InitRetry ==
    /\ InitCommon
    /\ hasRedis = FALSE
    /\ ck = NoChunk
    /\ fl = NoFilter
    /\ ig = NoIngest
    /\ \E v \in {"llm", "legacy"}, m \in 0..MaxRetriesArg :
          rw = [p \in Procs |-> IF p = RetryCaller
                                THEN RetryStart(v, m, DefaultBaseDelay)
                                ELSE NoRetry]

NextRetry ==
    \/ RwLoop(RetryCaller)
    \/ \E o \in Errors \cup {Success} : RwCall(RetryCaller, o)
    \/ RwWait(RetryCaller)

SpecRetry == InitRetry /\ [][NextRetry]_vars

(* the event loop runs every continuation that is ready, and the operation
   settles each time it is invoked *)
SpecRetryFair == SpecRetry /\ WF_vars(NextRetry)

----------------------------------------------------------------------------
(* Claims on the retry wrapper *)

(* errors that are transient, resp. permanent, by the specification's own
   taxonomy: rate limit / overload / server error, resp. auth / bad request *)
ClaimTransient(e) ==
    /\ ~e.ok
    /\ \/ e.status \in {429, 500, 502, 503, 504}
       \/ (e.hasMsg /\ e.message \in {msgOverloaded, msgRateLimit})

ClaimPermanent(e) ==
    /\ ~e.ok
    /\ e.status \in {0, 400}
    /\ (~e.hasMsg \/ e.message = msgDenied)

Finished(r) == r.at \in {"returned", "thrown"}

(* C4: retryWithBackoff of llm/gemini.js with maxRetries = 3. After one or two
   transient failures the wrapper invokes the operation again; when the third
   invocation succeeds it returns that success, after exactly 3 invocations.
   When the first invocation fails with a permanent error the wrapper throws
   that error after exactly 1 invocation. *)
C4_RetryThenSucceed ==
    LET r == rw[RetryCaller] IN
    (r.variant = "llm" /\ r.maxRetries = DefaultMaxRetries /\ Len(r.log) >= 1)
    => /\ (Len(r.log) <= 2 /\ \A n \in 1..Len(r.log) : ClaimTransient(r.log[n]))
            => ~Finished(r)
       /\ (/\ Len(r.log) = 3
           /\ ClaimTransient(r.log[1])
           /\ ClaimTransient(r.log[2])
           /\ r.log[3].ok)
            => (r.at = "returned" /\ r.result = r.log[3] /\ r.calls = 3)
       /\ ClaimPermanent(r.log[1])
            => (r.at = "thrown" /\ r.result = r.log[1] /\ r.calls = 1
                /\ Len(r.log) = 1)

C4_Witness ==
    LET r == rw[RetryCaller] IN
    /\ r.variant = "llm"
    /\ r.maxRetries = DefaultMaxRetries
    /\ Len(r.log) = 3
    /\ ClaimTransient(r.log[1])
    /\ ClaimTransient(r.log[2])
    /\ r.log[3].ok
    /\ r.at = "returned"
    /\ r.calls = 3

(* C5: whatever the operation settles with each time, retryWithBackoff never
   invokes it more than maxRetries times, and it finishes (returns or throws). *)
C5_RetryBounded ==
    /\ [](rw[RetryCaller].calls <= rw[RetryCaller].maxRetries)
    /\ <>Finished(rw[RetryCaller])

C5_Witness ==
    LET r == rw[RetryCaller] IN
    /\ r.at = "thrown"
    /\ r.maxRetries = 3
    /\ r.calls = r.maxRetries
    /\ \A n \in 1..Len(r.log) : ClaimTransient(r.log[n])

(* C21: retryWithBackoff of llm/gemini.js with the default maxRetries: when
   the first invocation fails with status 400 (bad request), whatever the
   error's message, the wrapper throws after that one invocation and has
   waited no backoff delay. *)
C21_PermanentImmediate ==
    LET r == rw[RetryCaller] IN
    (/\ r.variant = "llm"
     /\ r.maxRetries = DefaultMaxRetries
     /\ Len(r.log) >= 1
     /\ ~r.log[1].ok
     /\ r.log[1].status = 400)
    => (r.at = "thrown" /\ r.calls = 1 /\ r.delays = <<>>)

(* C29: retryWithBackoff of llm/gemini.js waits baseDelay * 2^i after the
   failed attempt number i (from 0) that it retries: 1000 ms, then 2000 ms
   with the defaults. Each wait follows a failed attempt and precedes the
   next one, so a finished call has waited once less than it has attempted:
   no wait follows the final attempt or a permanent error; the error thrown
   is that of the last attempt. *)
C29_BackoffSchedule ==
    LET r == rw[RetryCaller] IN
    (r.variant = "llm" /\ r.calls >= 1)
    => /\ \A n \in 1..Len(r.delays) : r.delays[n] = r.baseDelay * 2^(n - 1)
       /\ (r.baseDelay = 1000 /\ r.maxRetries = 3)
             => r.delays \in {<<>>, <<1000>>, <<1000, 2000>>}
       /\ Len(r.delays) = IF Finished(r) THEN r.calls - 1 ELSE r.calls
       /\ r.at = "wait"
             => /\ ~ClaimPermanent(r.log[Len(r.log)])
                /\ r.calls < r.maxRetries
       /\ r.at = "thrown"
             => /\ r.result = r.log[Len(r.log)]
                /\ r.calls = r.maxRetries \/ ~Transient(r.result)

C29_Witness ==
    LET r == rw[RetryCaller] IN
    /\ r.variant = "llm"
    /\ r.at = "thrown"
    /\ r.calls = 3
    /\ r.delays = <<1000, 2000>>
    /\ r.log[1] # r.log[3]
    /\ r.result = r.log[3]

----------------------------------------------------------------------------
(* Specification of the retrieval filter and the citation builder on every
   candidate list up to MaxCands entries *)

MaxCands == 4

Scores == {30, 55, 60, 90}
Urls == {"a", "b"}
Candidates == [score : Scores, url : Urls, title : {"t"}, text : {"x"}]

SeqsUpTo(S, n) == UNION {[1..m -> S] : m \in 0..n}

InitFilter ==
    /\ InitCommon
    /\ hasRedis = FALSE
    /\ rw = [p \in Procs |-> NoRetry]
    /\ ck = NoChunk
    /\ ig = NoIngest
    /\ \E s \in SeqsUpTo(Candidates, MaxCands) :
          fl = [NoFilter EXCEPT !.at = "search", !.searchResults = s]

NextFilter == FlFilter \/ FlCite

SpecFilter == InitFilter /\ [][NextFilter]_vars

(* C6: for every non-empty candidate list the filter yields a non-empty list. *)
C6_FilterNonEmpty ==
    (fl.at \in {"filtered", "cited"} /\ Len(fl.searchResults) > 0)
    => Len(fl.finalResults) > 0

C6_Witness ==
    /\ fl.at = "filtered"
    /\ Len(fl.searchResults) > 0
    /\ \A n \in 1..Len(fl.searchResults) : fl.searchResults[n].score < 60
    /\ Len(fl.finalResults) > 0

(* the positions of the candidates at or above 0.6 *)
Passing(s) == {n \in 1..Len(s) : s[n].score >= 60}

(* r lists the entries of s at the positions P, in their order in s *)
IsSelection(r, s, P) ==
    /\ Len(r) = Cardinality(P)
    /\ \A n \in P : r[Cardinality({m \in P : m <= n})] = s[n]

(* C7: the filter returns exactly the candidates with score >= 0.6, in input
   order, when there is one, and otherwise exactly the first min(3, length)
   candidates of the input, in input order. *)
C7_FilterPolicy ==
    LET s == fl.searchResults IN
    fl.at \in {"filtered", "cited"}
    => IF Passing(s) # {}
       THEN IsSelection(fl.finalResults, s, Passing(s))
       ELSE IsSelection(fl.finalResults, s, {n \in 1..Len(s) : n <= 3})

C7_Witness ==
    /\ fl.at = "filtered"
    /\ Len(fl.searchResults) = 4
    /\ Passing(fl.searchResults) = {}
    /\ Len(fl.finalResults) = 3

(* the highest score among the results with the given url *)
MaxScore(results, url) ==
    CHOOSE x \in {results[n].score : n \in {m \in 1..Len(results) : results[m].url = url}} :
        \A n \in 1..Len(results) : results[n].url = url => results[n].score <= x

(* C8: the citation list has exactly one entry per distinct url of the
   results, no entry for any other url, at most as many entries as there are
   results, and each entry's score is the highest among the results of its url. *)
C8_CitationsPerUrl ==
    LET r == fl.finalResults
        c == fl.citations
    IN
    fl.at = "cited"
    => /\ Len(c) <= Len(r)
       /\ \A n \in 1..Len(r) :
             Cardinality({m \in 1..Len(c) : c[m].url = r[n].url}) = 1
       /\ \A m \in 1..Len(c) :
             /\ \E n \in 1..Len(r) : r[n].url = c[m].url
             /\ c[m].score = MaxScore(r, c[m].url)

C8_Witness ==
    /\ fl.at = "cited"
    /\ Len(fl.finalResults) = 3
    /\ Len(fl.citations) = 2
    /\ fl.finalResults[1].url = fl.finalResults[3].url
    /\ fl.finalResults[1].score < fl.finalResults[3].score
    /\ fl.citations[1].score = fl.finalResults[3].score

(* the candidates are in descending order of score, as the vector database
   returns them *)
ByScore(results) ==
    \A n \in 1..(Len(results) - 1) : results[n].score >= results[n + 1].score

(* C24: when the vector search returned at least 3 candidates, the results
   kept for generation, and the context documents built from them, number at
   least 3, also when some of the candidates reach the 60% threshold (stated
   for candidates in descending order of score). *)
C24_AtLeastThreeKept ==
    (/\ fl.at \in {"filtered", "cited"}
     /\ Len(fl.searchResults) >= FallbackCount
     /\ ByScore(fl.searchResults))
    => /\ Len(fl.finalResults) >= FallbackCount
       /\ Len(contextDocs(fl.finalResults)) >= FallbackCount

----------------------------------------------------------------------------
(* Specification of concurrent chat requests. Each caller sends one request;
   the requests complete well within the session TTL, so the clock stands. *)

(* what the vector search answers with *)
candHigh == [score |-> 90, url |-> "a", title |-> "t", text |-> "x"]
candLow == [score |-> 30, url |-> "b", title |-> "t", text |-> "x"]
SearchOutcomes == {<<>>, <<candHigh, candLow>>}

(* what the generative model settles with *)
ChatOutcomes ==
    {Success, Settled(FALSE, 503, TRUE, msgOverloaded), Settled(FALSE, 400, TRUE, msgDenied)}

(* what the embedding service settles with: an embedding, 429 Too Many
   Requests, 400 Bad Request *)
EmbedOutcomes ==
    {Success, Settled(FALSE, 429, TRUE, msgRateLimit), Settled(FALSE, 400, TRUE, msgDenied)}

oldTurn == [message |-> "old", role |-> "user", ts |-> 0]

(* the store as one earlier append to session s1 left it *)
InitChatStore(pre) ==
    /\ clientOpen = (hasRedis /\ pre)
    /\ rlist = IF hasRedis /\ pre
               THEN MapSet(EmptyMap, KEY("s1"), <<JSONstringify(oldTurn, 0)>>)
               ELSE EmptyMap
    /\ rttl = IF hasRedis /\ pre
              THEN MapSet(EmptyMap, KEY("s1"), TTL_SECONDS)
              ELSE EmptyMap
    /\ mem = IF ~hasRedis /\ pre THEN MapSet(EmptyMap, KEY("s1"), <<oldTurn>>) ELSE EmptyMap
    /\ timers = IF ~hasRedis /\ pre
                THEN MapSet(EmptyMap, KEY("s1"), TTL_SECONDS)
                ELSE EmptyMap
    /\ pending = IF ~hasRedis /\ pre
                 THEN {[key |-> KEY("s1"), due |-> TTL_SECONDS]}
                 ELSE {}
    /\ gh = [s \in Sessions |->
               IF pre /\ s = "s1"
               THEN [GhInit EXCEPT !.expect = Project(<<oldTurn>>), !.base = 1]
               ELSE GhInit]

InitChat ==
    /\ hasRedis \in BOOLEAN
    /\ \E pre \in BOOLEAN : InitChatStore(pre)
    /\ now = 0
    /\ faults = 0
    /\ pc = [p \in Procs |-> "idle"]
    /\ call = [p \in Procs |-> NoCall]
    /\ hc = [p \in Procs |-> NoChat]
    /\ rw = [p \in Procs |-> NoRetry]
    /\ ck = NoChunk
    /\ fl = NoFilter
    /\ ig = NoIngest

NextChat ==
    \E p \in Procs :
        \/ \E sid \in Sessions : StartChat(p, sid)
        \/ HcHistory(p)
        \/ HcCatch(p)
        \/ \E o \in EmbedOutcomes : HcEmbed(p, o)
        \/ \E results \in SearchOutcomes : HcSearch(p, results)
        \/ RwLoop(p)
        \/ \E o \in ChatOutcomes : RwCall(p, o)
        \/ RwWait(p)
        \/ HcGenerated(p)
        \/ HcGenFailed(p)
        \/ HcAppendedUser(p)
        \/ HcRespond(p)
        \/ StoreStep(p)

SpecChat == InitChat /\ [][NextChat]_vars

----------------------------------------------------------------------------
(* Claims on the chat orchestrator *)

(* the session's stored history holds a turn with this message and role *)
HasTurn(sid, message, role) ==
    \E n \in 1..Len(Stored(sid)) :
        Stored(sid)[n].message = message /\ Stored(sid)[n].role = role

(* C1: after a chat request has failed, the session's stored history holds
   both turns of that request or neither of them, never the user turn alone. *)
C1_FailedRequestAtomic ==
    \A p \in Procs :
        pc[p] = "hc_failed"
        => (HasTurn(hc[p].sessionId, UserMsg[p], "user")
            <=> HasTurn(hc[p].sessionId, ReplyText[p], "assistant"))

(* the requests made on a session *)
RequestsOn(sid) == {p \in Procs : hc[p].sessionId = sid}

(* the positions of a turn in the session's stored history *)
TurnAt(sid, message, role) ==
    {n \in 1..Len(Stored(sid)) :
        Stored(sid)[n].message = message /\ Stored(sid)[n].role = role}

(* C3: when the K requests made on a session have all succeeded, however
   their steps interleaved, the session's history holds exactly 2K entries
   more than it started with, and each request's user turn is stored once,
   before that request's assistant turn, stored once. *)
C3_NoLostAppend ==
    \A sid \in Sessions :
        (\A p \in RequestsOn(sid) : pc[p] = "hc_done")
        => /\ Len(Stored(sid)) = gh[sid].base + 2 * Cardinality(RequestsOn(sid))
           /\ \A p \in RequestsOn(sid) :
                 /\ Cardinality(TurnAt(sid, UserMsg[p], "user")) = 1
                 /\ Cardinality(TurnAt(sid, ReplyText[p], "assistant")) = 1
                 /\ \A n \in TurnAt(sid, UserMsg[p], "user") :
                       \A m \in TurnAt(sid, ReplyText[p], "assistant") : n < m

C3_Witness ==
    \E sid \in Sessions :
        /\ RequestsOn(sid) = Procs
        /\ \A p \in Procs : pc[p] = "hc_done"
        /\ gh[sid].base = 1
        /\ Len(Stored(sid)) = 5
        /\ Stored(sid)[2].message = "q2"
        /\ Stored(sid)[3].message = "q1"
        /\ Stored(sid)[4].message = "a2"

(* the steps of a request, in the order of the specification: LoadHistory,
   EmbedQuery, Retrieve (with Filter and BuildContext, which await nothing),
   Generate (with Dedupe after it), PersistTurns (two appends), Respond *)
StepOrder ==
    <<"hc_getHistory", "hc_embed", "hc_search", "hc_generate",
      "hc_appendUser", "hc_appendAsst", "hc_done">>

StepNo(label) == CHOOSE n \in 1..Len(StepOrder) : StepOrder[n] = label

InRequest(p) == pc[p] \in {StepOrder[n] : n \in 1..Len(StepOrder)}

(* the awaited calls a request has in flight: a session-store call, an
   embedding or search call, a retryWithBackoff activation *)
InFlight(p) ==
    {c \in {"store", "embed", "search", "generate"} :
        \/ (c = "store" /\ call[p].fn # "none")
        \/ (c = "embed" /\ pc[p] = "hc_embed")
        \/ (c = "search" /\ pc[p] = "hc_search")
        \/ (c = "generate" /\ rw[p].at # "none")}

(* C17: a request is started with LoadHistory and moves from each step to the
   next one of the order only, or to failure; it has exactly one awaited call
   in flight until it responds, the one of its current step; the filtered
   results exist only from Generate on and are the filter of what Retrieve
   returned, the reply and the citations only from PersistTurns on. *)
C17_StepsInOrder ==
    /\ [][\A p \in Procs :
             pc'[p] # pc[p]
             => \/ (pc[p] = "idle" /\ pc'[p] = "hc_getHistory")
                \/ (InRequest(p) /\ pc[p] # "hc_done" /\ pc'[p] = "hc_failed")
                \/ /\ InRequest(p)
                   /\ pc[p] # "hc_done"
                   /\ pc'[p] = StepOrder[StepNo(pc[p]) + 1]]_vars
    /\ [](\A p \in Procs :
             InRequest(p) =>
                /\ InFlight(p) =
                      CASE pc[p] \in {"hc_getHistory", "hc_appendUser", "hc_appendAsst"}
                              -> {"store"}
                        [] pc[p] = "hc_embed" -> {"embed"}
                        [] pc[p] = "hc_search" -> {"search"}
                        [] pc[p] = "hc_generate" -> {"generate"}
                        [] OTHER -> {}
                /\ StepNo(pc[p]) < StepNo("hc_generate")
                      => hc[p].finalResults = <<>> /\ hc[p].searchResults = <<>>
                /\ StepNo(pc[p]) >= StepNo("hc_generate")
                      => hc[p].finalResults = finalResults(hc[p].searchResults)
                /\ StepNo(pc[p]) < StepNo("hc_appendUser")
                      => hc[p].reply = "" /\ hc[p].citations = <<>>
                /\ StepNo(pc[p]) >= StepNo("hc_appendUser")
                      => /\ hc[p].reply = ReplyText[p]
                         /\ hc[p].citations = citations(hc[p].finalResults))

C17_Witness ==
    \E p \in Procs :
        /\ pc[p] = "hc_done"
        /\ hc[p].reply = ReplyText[p]
        /\ Len(hc[p].finalResults) = 1
        /\ Len(hc[p].citations) = 1
        /\ call[p] = NoCall
        /\ HasTurn(hc[p].sessionId, UserMsg[p], "user")
        /\ HasTurn(hc[p].sessionId, ReplyText[p], "assistant")

(* what POST /api/chat answers once handleChat has settled: the reply, or
   status 500 with the message of the error handleChat throws *)
ChatResponse(p) ==
    IF pc[p] = "hc_done"
    THEN [status |-> 200, reply |-> hc[p].reply, citations |-> hc[p].citations,
          sessionId |-> hc[p].sessionId]
    ELSE IF pc[p] = "hc_failed"
    THEN [status |-> 500, error |-> "Failed to process chat message"]
    ELSE [status |-> 0]

(* an awaited call of the request has rejected and the rejection has not yet
   been taken by handleChat's catch *)
Rejected(p) == call[p].at = "throw" \/ rw[p].at = "thrown"

(* C18: when an awaited call of a request rejects (getHistory, getEmbedding,
   search, generation once retryWithBackoff gives up, appendMessage), the
   request's next and only step is its failure: it starts no other call, and
   once failed it stays failed with nothing in flight and nothing changed; the
   caller is answered with status 500 and an error, no reply and no citations. *)
C18_FailureAborts ==
    /\ [][\A p \in Procs :
             /\ (InRequest(p) /\ faults' > faults /\ pc[p] \in {"hc_embed", "hc_search"}
                    /\ pc'[p] # pc[p])
                   => pc'[p] = "hc_failed"
             /\ Rejected(p) =>
                   \/ (pc'[p] = pc[p] /\ call'[p] = call[p] /\ rw'[p] = rw[p])
                   \/ (pc'[p] = "hc_failed" /\ call'[p] = NoCall /\ rw'[p] = NoRetry)
             /\ pc[p] = "hc_failed" =>
                   /\ pc'[p] = "hc_failed"
                   /\ call'[p] = NoCall
                   /\ rw'[p] = NoRetry
                   /\ hc'[p].reply = hc[p].reply
                   /\ hc'[p].citations = hc[p].citations]_vars
    /\ [](\A p \in Procs :
             pc[p] = "hc_failed" =>
                /\ call[p] = NoCall
                /\ rw[p] = NoRetry
                /\ ChatResponse(p).status = 500
                /\ DOMAIN ChatResponse(p) = {"status", "error"})

C18_Witness ==
    \E p \in Procs :
        /\ pc[p] = "hc_failed"
        /\ hc[p].reply = ReplyText[p]
        /\ hc[p].citations # <<>>
        /\ ChatResponse(p).status = 500

(* the turn a request appends at the step it is in *)
TurnOf(p) ==
    IF pc[p] = "hc_appendUser"
    THEN [message |-> hc[p].message, role |-> "user"]
    ELSE [message |-> hc[p].reply, role |-> "assistant"]

(* C19: the stored history of a session, and its expiry, change only by a
   request on that session whose generation has succeeded and which is at its
   first or second append; the change adds that request's user turn at the
   first and its assistant turn at the second, which starts only when the
   user turn is stored. A request that failed at history load, embedding,
   search or generation has stored neither of its turns. *)
C19_PersistAfterGenerate ==
    /\ [][\A sid \in Sessions :
             (\/ Stored(sid)' # Stored(sid)
              \/ IsStored(sid)' # IsStored(sid)
              \/ HasDeadline(sid)' # HasDeadline(sid)
              \/ (HasDeadline(sid) /\ Deadline(sid)' # Deadline(sid)))
             => \E p \in Procs :
                   /\ hc[p].sessionId = sid
                   /\ pc[p] \in {"hc_appendUser", "hc_appendAsst"}
                   /\ hc[p].reply = ReplyText[p]
                   /\ call[p].fn = "appendMessage"
                   /\ \/ Stored(sid)' = Stored(sid)
                      \/ Project(Stored(sid)') = Append(Project(Stored(sid)), TurnOf(p))]_vars
    /\ [](\A p \in Procs :
             /\ pc[p] = "hc_appendAsst"
                   => HasTurn(hc[p].sessionId, UserMsg[p], "user")
             /\ (pc[p] \in {"hc_getHistory", "hc_embed", "hc_search", "hc_generate"}
                    \/ (pc[p] = "hc_failed" /\ hc[p].reply = ""))
                   => /\ ~HasTurn(hc[p].sessionId, UserMsg[p], "user")
                      /\ ~HasTurn(hc[p].sessionId, ReplyText[p], "assistant"))

C19_Witness ==
    \E p \in Procs :
        /\ pc[p] = "hc_failed"
        /\ hc[p].reply = ""
        /\ faults = 0
        /\ hc[p].sessionId = "s1"
        /\ gh["s1"].base = 1
        /\ Project(Stored("s1")) = Project(<<oldTurn>>)
        /\ \A q \in Procs \ {p} : pc[q] = "idle"

(* C20: a request fails on a transient failure of the embedding service
   (rate limit, overload, server error) only after it has called the service
   more than once. *)
C20_EmbeddingRetried ==
    \A p \in Procs :
        (pc[p] = "hc_failed" /\ ClaimTransient(hc[p].embedError))
        => hc[p].embedCalls > 1

(* C22: when the vector search resolves with zero candidates the request goes
   on to generation with an empty context (no result, no context document),
   it does not fail at that step; a request that then completes answers with
   its generated reply and an empty citation list, and its user turn and its
   assistant turn are both stored. *)
C22_EmptySearchStillAnswers ==
    /\ [][\A p \in Procs :
             (/\ pc[p] = "hc_search"
              /\ pc'[p] # "hc_search"
              /\ faults' = faults
              /\ hc'[p].searchResults = <<>>)
             => /\ pc'[p] = "hc_generate"
                /\ hc'[p].finalResults = <<>>
                /\ contextDocs(hc'[p].finalResults) = <<>>
                /\ rw'[p].at = "loop"]_vars
    /\ [](\A p \in Procs :
             (pc[p] = "hc_done" /\ hc[p].searchResults = <<>>)
             => /\ ChatResponse(p).status = 200
                /\ ChatResponse(p).reply = ReplyText[p]
                /\ ChatResponse(p).citations = <<>>
                /\ HasTurn(hc[p].sessionId, UserMsg[p], "user")
                /\ HasTurn(hc[p].sessionId, ReplyText[p], "assistant"))

C22_Witness ==
    \E p \in Procs :
        /\ pc[p] = "hc_done"
        /\ hc[p].searchResults = <<>>
        /\ hc[p].citations = <<>>
        /\ hc[p].reply = ReplyText[p]
        /\ HasTurn(hc[p].sessionId, UserMsg[p], "user")
        /\ HasTurn(hc[p].sessionId, ReplyText[p], "assistant")

(* C31: the chat-history part of the prompt a request sends to generation
   has one line per turn of the (last six turns of the) history the request
   passes, and each line's text is the message text stored for that turn. *)
C31_PromptCarriesTurnText ==
    \A p \in Procs :
        pc[p] = "hc_generate"
        => LET last == SliceLast(hc[p].passed, HistoryWindow) IN
           /\ Len(hc[p].histText) = Len(last)
           /\ \A n \in 1..Len(last) : hc[p].histText[n].text = last[n].message

(* C32: the history a request passes to generation is the session log as the
   request's getHistory call read it, on either backend: turns that another
   request appended to the session after that read are not in it. *)
C32_HistoryIsSnapshot ==
    \A p \in Procs :
        pc[p] = "hc_generate" => hc[p].passed = hc[p].loaded

----------------------------------------------------------------------------
(* Specification of chunkText with its default parameters on a family of
   texts: blanks, then letters with at most one full stop, then blanks *)

Blanks(n) == [j \in 1..n |-> " "]

(* a text of n letters, the one at offset dot (if any) a full stop *)
Body(n, dot) == [j \in 1..n |-> IF j = dot + 1 THEN "." ELSE "a"]

BodyLengths == {0, 99, 100, 101, 250, 1200, 1499, 1500, 1600}
BlankCounts == {0, 2}

(* where the full stop stands: nowhere, or at one of these offsets *)
DotOffsets == {-1, 1199, 1400, 1500}

ChunkTexts ==
    {Blanks(lead) \o Body(n, dot) \o Blanks(trail) :
        lead \in BlankCounts, trail \in BlankCounts,
        n \in BodyLengths, dot \in DotOffsets}

(* the overlap argument: the default, none, nearly and fully the window
   length, and a negative one *)
ChunkOverlaps ==
    {DefaultOverlap, 0, DefaultMaxChars - 10, DefaultMaxChars, 0 - 10}

(* the texts chunked with each of these overlaps: empty, short, and longer
   than 30 windows that advance by 10 characters *)
OverlapTexts == {<<>>, Body(250, -1), Body(DefaultMaxChars + 500, -1)}

InitChunk ==
    /\ InitCommon
    /\ hasRedis = FALSE
    /\ rw = [p \in Procs |-> NoRetry]
    /\ fl = NoFilter
    /\ ig = NoIngest
    /\ \/ \E text \in ChunkTexts : ck = ChunkStart(text, DefaultMaxChars, DefaultOverlap)
       \/ \E text \in OverlapTexts, overlap \in ChunkOverlaps :
             ck = ChunkStart(text, DefaultMaxChars, overlap)

NextChunk == CkRound \/ CkReturn

SpecChunk == InitChunk /\ [][NextChunk]_vars

(* C10: for every text shorter than maxChars whose trimmed length is above
   the 100-character floor, chunkText with default parameters returns exactly
   one chunk, the trimmed text. *)
C10_ShortTextOneChunk ==
    (/\ ck.at = "done"
     /\ Len(ck.text) < ck.maxChars
     /\ Len(Trim(ck.text)) > 100)
    => ck.chunks = <<Trim(ck.text)>>

(* C11: every chunk chunkText has collected is at most maxChars characters
   long, also when the window end was moved to a sentence end. *)
C11_ChunkWithinMax ==
    \A n \in 1..Len(ck.chunks) : Len(ck.chunks[n]) <= ck.maxChars

(* C25: the round of chunkText whose window ends at the end of the text is
   the last round: after it the loop condition is false, so the chunk cut
   from that window is the last chunk of the output and the returned chunks
   are pairwise different pieces of the text. *)
C25_StopsAtTextEnd ==
    /\ [][(/\ ck.at = "loop"
            /\ ChunkLoopCond(ck)
            /\ WindowEnd(ck.text, ck.i, ck.maxChars) = Len(ck.text))
           => ~ChunkLoopCond(ck')]_vars
    /\ [](ck.at = "done"
            => \A a, b \in 1..Len(ck.chunks) : a # b => ck.chunks[a] # ck.chunks[b])

(* C26: for every text, the empty one included, and every overlap, chunkText
   returns after at most maxChunks rounds, with at most maxChunks chunks:
   every step of the loop is a round that counts one up or the return, the
   count never passes maxChunks, and a loop whose condition is false returns.
   When it returns before a window has reached the end of the text (overlap
   not negative) it is because the 30 rounds are used up: the rest of the
   text is left out. *)
C26_TerminatesWithinCap ==
    /\ [](/\ ck.chunkCount <= maxChunks
          /\ Len(ck.chunks) <= ck.chunkCount
          /\ (ck.at = "done" /\ ck.end < Len(ck.text) /\ ck.overlap >= 0)
                => ck.chunkCount = maxChunks)
    /\ [][ck.at = "loop"
            => IF ChunkLoopCond(ck)
               THEN ck'.at = "loop" /\ ck'.chunkCount = ck.chunkCount + 1
               ELSE ck'.at = "done" /\ ck'.chunkCount = ck.chunkCount]_vars

C26_Witness ==
    /\ ck.at = "done"
    /\ ck.overlap = DefaultMaxChars - 10
    /\ ck.end < Len(ck.text)
    /\ Len(ck.chunks) = maxChunks

(* C27: in every round of chunkText the trimmed slice is emitted as a chunk
   exactly when its length is at least 100 (a slice of exactly 100 characters
   is emitted), and no emitted chunk is shorter than 100 characters. *)
C27_KeepsFromHundred ==
    /\ [][(ck.at = "loop" /\ ChunkLoopCond(ck))
           => LET end == WindowEnd(ck.text, ck.i, ck.maxChars)
                  chunk == Trim(Slice(ck.text, ck.i, end))
              IN  ck'.chunks = IF Len(chunk) >= MinChunkLength
                               THEN Append(ck.chunks, chunk)
                               ELSE ck.chunks]_vars
    /\ [](\A n \in 1..Len(ck.chunks) : Len(ck.chunks[n]) >= MinChunkLength)

----------------------------------------------------------------------------
(* The ingestion run: main of ingest/ingest.js *)

MaxUrls == 3
MinTextLength == 500
EmbedGroupSize == 4

UrlLines == {"u1", "u2"}

(* [...new Set(urlsRaw)]: the distinct lines, in order of first occurrence *)
NewSet(urlsRaw) ==
    LET F[n \in 0..Len(urlsRaw)] ==
            IF n = 0 THEN <<>>
            ELSE IF \E k \in 1..Len(F[n - 1]) : F[n - 1][k] = urlsRaw[n]
                 THEN F[n - 1]
                 ELSE Append(F[n - 1], urlsRaw[n])
    IN F[Len(urlsRaw)]

(* chunkArray(arr, size): consecutive slices of at most size elements *)
chunkArray(arr, size) ==
    [k \in 1..((Len(arr) + size - 1) \div size) |->
        SubSeq(arr, (k - 1) * size + 1, Min(k * size, Len(arr)))]

(* how scrape(url) settles: it rejects, or resolves with a text of some
   length, which chunkText cuts into n chunks *)
ScrapeOutcomes ==
    {[ok |-> FALSE, length |-> 0, n |-> 0],
     [ok |-> TRUE, length |-> 0, n |-> 0],
     [ok |-> TRUE, length |-> MinTextLength - 1, n |-> 1],
     [ok |-> TRUE, length |-> MinTextLength, n |-> 1],
     [ok |-> TRUE, length |-> 4 * MinTextLength, n |-> EmbedGroupSize + 1]}

(* lines 174-189: the URL list is read and deduplicated, the collection is
   deleted and created again; a rejection of inferDim or ensureCollection
   leaves main before the loop *)
IgSetup(ok) ==
    /\ ig.at = "start"
    /\ ig' = IF ok
             THEN [ig EXCEPT !.at = "loop", !.urls = NewSet(ig.urlsRaw),
                             !.i = 0, !.processed = 0]
             ELSE [ig EXCEPT !.at = "crashed"]
    /\ UNCHANGED <<storeVars, faults, pc, call, hc, rw, gh, ck, fl>>

(* for (let i = 0; i < urls.length; i++): the test, then scrape(url) is
   called, line 199; after the loop the report of line 254 *)
IgLoop ==
    /\ ig.at = "loop"
    /\ ig' = IF ig.i < Len(ig.urls)
             THEN [ig EXCEPT !.at = "scrape",
                             !.attempts = Append(@, ig.urls[ig.i + 1])]
             ELSE [ig EXCEPT !.at = "done"]
    /\ UNCHANGED <<storeVars, faults, pc, call, hc, rw, gh, ck, fl>>

(* scrape settles: catch (line 244), or the too-short continue (lines
   203-206), or chunkText and chunkArray(chunks, 4), lines 210-216 *)
IgScrape(o) ==
    /\ ig.at = "scrape"
    /\ ig' = IF ~o.ok \/ o.length = 0 \/ o.length < MinTextLength
             THEN [ig EXCEPT !.at = "next"]
             ELSE LET chunks == [k \in 1..o.n |-> k]
                      groups == chunkArray(chunks, EmbedGroupSize)
                  IN [ig EXCEPT !.chunks = chunks, !.groups = groups, !.g = 1,
                                !.vectors = <<>>,
                                !.at = IF groups = <<>> THEN "upsert" ELSE "embed"]
    /\ UNCHANGED <<storeVars, faults, pc, call, hc, rw, gh, ck, fl>>

(* the embedding the service computes for a text *)
Embedding(text) == <<"embedding", text>>

(* embedMany(texts) resolving: res.data.data.map((d) => d.embedding), one
   embedding per text, in the order of the texts (embed/jina.js 34-47) *)
embedMany(texts) == [n \in 1..Len(texts) |-> Embedding(texts[n])]

IgEmbedAborts(ok) ==
    /\ ig.at = "embed"
    /\ ig' = IF ok
             THEN [ig EXCEPT !.vectors = @ \o embedMany(ig.groups[ig.g]), !.g = @ + 1,
                             !.at = IF ig.g = Len(ig.groups) THEN "upsert" ELSE "embed"]
             ELSE [ig EXCEPT !.at = "crashed"]
    /\ UNCHANGED <<storeVars, faults, pc, call, hc, rw, gh, ck, fl>>

(* embedMany(group) settles, lines 217-229: the vectors are pushed and the
   next group follows, or the error is rethrown into the catch of line 244 *)
IgEmbed(ok) ==
    /\ ig.at = "embed"
    /\ ig' = IF ok
             THEN [ig EXCEPT !.vectors = @ \o embedMany(ig.groups[ig.g]), !.g = @ + 1,
                             !.at = IF ig.g = Len(ig.groups) THEN "upsert" ELSE "embed"]
             ELSE [ig EXCEPT !.at = "next",
                             !.embedFailed = @ \cup {[url |-> ig.urls[ig.i + 1],
                                                      embedded |-> Len(ig.vectors)]}]
    /\ UNCHANGED <<storeVars, faults, pc, call, hc, rw, gh, ck, fl>>

(* chunks.map((chunk, idx) => ({ id, vector: vectors[idx], payload: { url,
   title, text: chunk } })), lines 232-236 *)
Points(url, chunks, vectors) ==
    {[url |-> url, text |-> chunks[idx], vector |-> vectors[idx]] :
        idx \in 1..Len(chunks)}

(* points.forEach((p) => out.write(JSON.stringify(p.payload))), line 242 *)
Payloads(points) == {[url |-> pt.url, text |-> pt.text] : pt \in points}

IgUpsertLogsAnyway(ok) ==
    LET points == Points(ig.urls[ig.i + 1], ig.chunks, ig.vectors) IN
    /\ ig.at = "upsert"
    /\ ig' = IF ok
             THEN [ig EXCEPT !.processed = @ + 1,
                             !.upserted = Append(@, ig.urls[ig.i + 1]),
                             !.store = @ \cup points,
                             !.jsonl = @ \cup Payloads(points),
                             !.at = "next"]
             ELSE [ig EXCEPT !.jsonl = @ \cup Payloads(points), !.at = "next"]
    /\ UNCHANGED <<storeVars, faults, pc, call, hc, rw, gh, ck, fl>>

(* upsertPoints(COLLECTION, points) settles, lines 239-245: the payloads are
   written to the JSONL file and processed++, or the catch *)
IgUpsert(ok) ==
    LET points == Points(ig.urls[ig.i + 1], ig.chunks, ig.vectors) IN
    /\ ig.at = "upsert"
    /\ ig' = IF ok
             THEN [ig EXCEPT !.processed = @ + 1,
                             !.upserted = Append(@, ig.urls[ig.i + 1]),
                             !.store = @ \cup points,
                             !.jsonl = @ \cup Payloads(points),
                             !.at = "next"]
             ELSE [ig EXCEPT !.at = "next"]
    /\ UNCHANGED <<storeVars, faults, pc, call, hc, rw, gh, ck, fl>>

(* the end of the loop body: i++ *)
IgNext ==
    /\ ig.at = "next"
    /\ ig' = [ig EXCEPT !.at = "loop", !.i = @ + 1, !.chunks = <<>>,
                        !.groups = <<>>, !.g = 0, !.vectors = <<>>]
    /\ UNCHANGED <<storeVars, faults, pc, call, hc, rw, gh, ck, fl>>

InitIngest ==
    /\ InitCommon
    /\ hasRedis = FALSE
    /\ rw = [p \in Procs |-> NoRetry]
    /\ ck = NoChunk
    /\ fl = NoFilter
    /\ \E s \in SeqsUpTo(UrlLines, MaxUrls) :
          ig = [NoIngest EXCEPT !.at = "start", !.urlsRaw = s]

NextIngest ==
    \/ \E ok \in BOOLEAN : IgSetup(ok)
    \/ IgLoop
    \/ \E o \in ScrapeOutcomes : IgScrape(o)
    \/ \E ok \in BOOLEAN : IgEmbed(ok)
    \/ \E ok \in BOOLEAN : IgUpsert(ok)
    \/ IgNext

SpecIngest == InitIngest /\ [][NextIngest]_vars

(* the elements of a sequence *)
Range(s) == {s[n] : n \in 1..Len(s)}

(* C23: in the ingestion loop no failure of scrape, embedding or upsert ends
   the run: the URL in hand is given up and the loop goes on. The URLs
   attempted so far are the first URLs of the deduplicated list, each once and
   in list order, a new one only when the one before is finished; at the
   report every URL of the list has been attempted and processed is the
   number of URLs whose points were upserted, at most the length of the list. *)
C23_IngestLoopCompletes ==
    /\ [](ig.at \in {"loop", "scrape", "embed", "upsert", "next", "done"}
            => /\ \A a, b \in 1..Len(ig.urls) : a # b => ig.urls[a] # ig.urls[b]
               /\ Range(ig.urls) = Range(ig.urlsRaw)
               /\ ig.attempts = SubSeq(ig.urls, 1, Len(ig.attempts))
               /\ Len(ig.attempts) = IF ig.at \in {"loop", "done"} THEN ig.i ELSE ig.i + 1
               /\ ig.processed = Len(ig.upserted)
               /\ ig.processed <= Len(ig.urls)
               /\ Range(ig.upserted) \subseteq Range(ig.attempts)
               /\ ig.at = "done" => ig.attempts = ig.urls)
    /\ [][/\ ig.at \in {"scrape", "embed", "upsert"}
             => ig'.at \in {"embed", "upsert", "next"}
          /\ ig.at = "next" => ig'.at = "loop"
          /\ Len(ig'.attempts) > Len(ig.attempts) => ig.at = "loop"
          /\ ig'.processed > ig.processed
             => /\ ig.at = "upsert"
                /\ ig'.upserted = Append(ig.upserted, ig.urls[ig.i + 1])]_vars

C23_Witness ==
    /\ ig.at = "done"
    /\ ig.urlsRaw = <<"u1", "u2", "u1">>
    /\ ig.attempts = <<"u1", "u2">>
    /\ ig.upserted = <<"u2">>
    /\ ig.processed = 1

(* C33: ingestion of a URL reaches the vector store and the backup log whole
   or not at all. A URL one of whose embedding batches failed has no point in
   the store and no record in the log; the log holds records only of upserted
   points; every upserted point carries the embedding of its own chunk; and
   the store changes only in the one upsert of a URL, which adds a point for
   every chunk of that URL after all its batches were embedded. *)
C33_IngestAllOrNothing ==
    /\ [](/\ \A f \in ig.embedFailed :
                /\ \A pt \in ig.store : pt.url # f.url
                /\ \A rec \in ig.jsonl : rec.url # f.url
          /\ ig.jsonl \subseteq Payloads(ig.store)
          /\ \A pt \in ig.store :
                /\ pt.vector = Embedding(pt.text)
                /\ pt.url \in Range(ig.upserted))
    /\ [][(ig'.store # ig.store \/ ig'.jsonl # ig.jsonl)
           => /\ ig.at = "upsert"
              /\ ig.g > Len(ig.groups)
              /\ Len(ig.vectors) = Len(ig.chunks)
              /\ {pt.text : pt \in ig'.store \ ig.store} = Range(ig.chunks)
              /\ \A pt \in ig'.store \ ig.store : pt.url = ig.urls[ig.i + 1]
              /\ ig'.jsonl \ ig.jsonl = Payloads(ig'.store \ ig.store)]_vars

C33_Witness ==
    /\ ig.at = "done"
    /\ ig.embedFailed = {[url |-> "u1", embedded |-> EmbedGroupSize]}
    /\ ig.upserted = <<"u2">>
    /\ Cardinality(ig.store) = EmbedGroupSize + 1
    /\ Cardinality(ig.jsonl) = EmbedGroupSize + 1

----------------------------------------------------------------------------
(* Specification of the session store under two callers, each on a session of
   its own: the first appends and resets, the second appends whenever its
   session holds no log; sessions expire. The Redis connection is up and no
   command fails. *)

(* the session each caller works on, and the turn it appends *)
SessionOf == [p \in Procs |-> IF p = StoreCaller THEN "s1" ELSE "s2"]
TurnBy == [p \in Procs |-> [message |-> UserMsg[p], role |-> "user"]]

InitFrame ==
    /\ hasRedis \in BOOLEAN
    /\ clientOpen = hasRedis
    /\ rlist = EmptyMap
    /\ rttl = EmptyMap
    /\ mem = EmptyMap
    /\ timers = EmptyMap
    /\ pending = {}
    /\ now = 0
    /\ faults = MaxFaults
    /\ pc = [p \in Procs |-> "idle"]
    /\ call = [p \in Procs |-> NoCall]
    /\ hc = [p \in Procs |-> NoChat]
    /\ gh = [s \in Sessions |-> GhInit]
    /\ rw = [p \in Procs |-> NoRetry]
    /\ ck = NoChunk
    /\ fl = NoFilter
    /\ ig = NoIngest

NextFrame ==
    \/ CallReset(StoreCaller, SessionOf[StoreCaller])
    \/ CallAppend(StoreCaller, SessionOf[StoreCaller], TurnBy[StoreCaller])
    \/ \E p \in Procs \ {StoreCaller} :
          ~IsStored(SessionOf[p]) /\ CallAppend(p, SessionOf[p], TurnBy[p])
    \/ \E p \in Procs :
          \/ Return(p)
          \/ GetClient(p)
          \/ RPush(p)
          \/ Expire(p)
          \/ MemAppend(p)
          \/ Del(p)
          \/ MemReset(p)
    \/ \E sid \in Sessions : TimerFire(sid)
    \/ Tick

SpecFrame == InitFrame /\ [][NextFrame]_vars

(* the stored log of the session or its expiry differs after the step *)
StoreChanged(sid) ==
    \/ Stored(sid)' # Stored(sid)
    \/ IsStored(sid)' # IsStored(sid)
    \/ HasDeadline(sid)' # HasDeadline(sid)
    \/ (HasDeadline(sid) /\ Deadline(sid)' # Deadline(sid))
    \/ PendingOf(sid)' # PendingOf(sid)

(* C30: whatever the interleaving of requests on different sessions, a step
   changes a session's stored log or its expiry only if it is a step of an
   appendMessage or resetSession call on that very session, or the expiry of
   that session's own deadline; so an append, a reset or an expiry of one
   session leaves every other session's log and expiry as they were. *)
C30_SessionsIndependent ==
    [][\A sid \in Sessions :
          StoreChanged(sid)
          => \/ \E p \in Procs :
                   /\ call[p].sid = sid
                   /\ call[p].fn \in {"appendMessage", "resetSession"}
                   /\ call'[p] # call[p]
                   /\ \A q \in Procs \ {p} : call'[q] = call[q]
             \/ /\ HasDeadline(sid)
                /\ Deadline(sid) <= now'
                /\ ~IsStored(sid)'
                /\ ~HasDeadline(sid)']_vars

C30_Witness ==
    /\ gh["s1"].sinceReset
    /\ ~IsStored("s1")
    /\ IsStored("s2")
    /\ Len(Stored("s2")) = 1
    /\ gh["s1"].dropped = 2
    /\ HasDeadline("s2")
    /\ Deadline("s2") = now + TTL_SECONDS
    /\ now > 0

====
